---------------------------- MODULE Spec2Model ----------------------------
(***************************************************************************)
(* Model of the step-execution engine of the bug reproduction agent:       *)
(* the planner's step conversion (planner_node.py), the conversion and     *)
(* error path of ExecutionNode.execute_steps_with_browser                  *)
(* (execution_node.py) and execute_step, the action executors and          *)
(* run_browser_automation (browser_automation.py).                         *)
(*                                                                         *)
(* Text is modelled at two grains.  Values and element texts are sequences *)
(* of one-character strings.  Target descriptions are sequences of words   *)
(* (quote marks are words of their own); a substring test of the code on a *)
(* target becomes a test on the words, through LowerWord and WordHas.      *)
(* An optional value is a sequence: << >> is None/absent, <<x>> is x.      *)
(***************************************************************************)
EXTENDS Integers, Sequences, FiniteSets, TLC

VARIABLES
    stepData,     \* the planner's parsed step_data records (LLM JSON)
    steps,        \* the ReproductionStep objects handed to the execution node
    formatted,    \* formatted_steps of execute_steps_with_browser
    results,      \* results of run_browser_automation (ReproductionStep records)
    executed,     \* the list execute_steps_with_browser returns
    pc,           \* position in the planner -> conversion -> browser run sequence
    runExc,       \* the exception that left run_browser_automation / the conversion
    trace,        \* one record per pass of the loop: step, page, outcomes
    plannerLog,   \* lines printed by create_reproduction_plan for the steps
    convertLog,   \* lines printed by the step conversion
    browserOpen,  \* whether the launched browser is still open
    state,        \* the AgentState the graph hands from node to node
    node,         \* the node of the graph that runs next, or "END"
    visits,       \* one record per node that ran: the state before and after
    use_real_browser   \* the execution node's mode, set at construction

runVars == <<stepData, steps, formatted, results, executed, pc, runExc, trace,
             plannerLog, convertLog, browserOpen>>

wfVars == <<state, node, visits, use_real_browser>>

vars == <<stepData, steps, formatted, results, executed, pc, runExc, trace,
          plannerLog, convertLog, browserOpen, state, node, visits,
          use_real_browser>>

None == << >>
Some(x) == <<x>>

Range(s) == { s[i] : i \in 1..Len(s) }

(***************************************************************************)
(* Character strings                                                       *)
(***************************************************************************)
Digits == {"0", "1", "2", "3", "4", "5", "6", "7", "8", "9"}

DigitVal(c) ==
    CASE c = "0" -> 0 [] c = "1" -> 1 [] c = "2" -> 2 [] c = "3" -> 3
      [] c = "4" -> 4 [] c = "5" -> 5 [] c = "6" -> 6 [] c = "7" -> 7
      [] c = "8" -> 8 [] c = "9" -> 9

\* int(s) for a string of decimal digits
RECURSIVE IntOf(_)
IntOf(s) ==
    IF s = << >> THEN 0
    ELSE IntOf(SubSeq(s, 1, Len(s) - 1)) * 10 + DigitVal(s[Len(s)])

\* A character that str.isdigit() accepts and int() refuses: superscript two
SuperTwo == "sup2"

\* str.isdigit(): non-empty and every character a digit, the superscript
\* digits included
IsDigitStr(s) ==
    s /= << >> /\ \A i \in 1..Len(s) : s[i] \in Digits \cup {SuperTwo}

\* What int() parses: decimal digits only
IsDecimalStr(s) == s /= << >> /\ \A i \in 1..Len(s) : s[i] \in Digits

\* str.strip(): whitespace removed at both ends
RECURSIVE LStrip(_)
LStrip(s) ==
    IF s /= << >> /\ s[1] = " " THEN LStrip(Tail(s)) ELSE s

RECURSIVE RStrip(_)
RStrip(s) ==
    IF s /= << >> /\ s[Len(s)] = " " THEN RStrip(SubSeq(s, 1, Len(s) - 1)) ELSE s

Strip(s) == RStrip(LStrip(s))

\* re.findall(r'\d+', s): the maximal digit runs, left to right.  cur is the
\* run being scanned, acc the runs already closed.
RECURSIVE FindAllScan(_, _, _)
FindAllScan(s, cur, acc) ==
    IF s = << >> THEN (IF cur = << >> THEN acc ELSE Append(acc, cur))
    ELSE IF s[1] \in Digits THEN FindAllScan(Tail(s), Append(cur, s[1]), acc)
    ELSE FindAllScan(Tail(s), << >>, IF cur = << >> THEN acc ELSE Append(acc, cur))

FindAllDigits(s) == FindAllScan(s, << >>, << >>)

\* The last number of the text instead of the first
LastNumberOf(s) ==
    IF FindAllDigits(s) /= << >>
    THEN Some(IntOf(FindAllDigits(s)[Len(FindAllDigits(s))])) ELSE None

\* numbers = re.findall(r'\d+', text); int(numbers[0]) if numbers else None
NumericValueOf(s) ==
    LET numbers == FindAllDigits(s)
    IN  IF numbers /= << >> THEN Some(IntOf(numbers[1])) ELSE None

\* "*" * len(value)
MaskOf(value) == [i \in 1..Len(value) |-> "*"]

\* s[:n]
Prefix(s, n) == SubSeq(s, 1, IF Len(s) < n THEN Len(s) ELSE n)

(***************************************************************************)
(* Target descriptions: sequences of words                                 *)
(***************************************************************************)
\* str.lower() on one word
LowerWord(w) ==
    CASE w = "Password" -> "password"
      [] w = "PASSWORD" -> "password"
      [] w = "Email" -> "email"
      [] w = "Completed" -> "completed"
      [] w = "Login" -> "login"
      [] w = "Jar" -> "jar"
      [] w = "Click" -> "click"
      [] w = "FILL" -> "fill"
      [] w = "Enter" -> "enter"
      [] OTHER -> w

Lower(t) == [i \in 1..Len(t) |-> LowerWord(t[i])]

\* kw in w, for a lower-case word w: a word holds itself and the keywords
\* spelled inside it
WordHas(w, kw) ==
    \/ w = kw
    \/ w = "password" /\ kw = "pass"
    \/ w = "username" /\ kw = "user"
    \/ w = "completed" /\ kw = "complete"
    \/ w = "table" /\ kw = "tab"
    \/ w = "navbar" /\ kw = "nav"

\* kw in t, for a target t already lower-cased by the caller
Contains(t, kw) == \E i \in 1..Len(t) : WordHas(t[i], kw)

QuoteMarks == {"'", "\""}


\* A word the pattern \w+ matches as a whole
IsWordChars(w) == w \notin QuoteMarks

\* The lower-case words whose last letters are "in": the pattern "in " is
\* searched without a word boundary
EndsWithIn(w) == w \in {"in", "login"}

\* The lower-case words that begin with tab, section or area: the pattern
\* asks for no boundary after the location kind
StartsWithLocKind(w) == w \in {"tab", "section", "area", "table"}

QuotePositions(t) == { i \in 1..Len(t) : t[i] \in QuoteMarks }

\* context_match = re.search(r"['\"]([^'\"]*)['\"]", target) and its group(1):
\* the words between the first quote mark and the next one, None when there
\* is no second mark
ContextText(t) ==
    LET qs == QuotePositions(t)
    IN  IF Cardinality(qs) < 2 THEN None
        ELSE LET i == CHOOSE x \in qs : \A y \in qs : x <= y
                 j == CHOOSE x \in qs \ {i} : \A y \in qs \ {i} : x <= y
             IN  Some(SubSeq(t, i + 1, j - 1))

\* Python truth of context_text: None and the empty string are false
ContextTruthy(ctx) == ctx /= None /\ ctx[1] /= << >>

\* re.search(r"in (?:the )?(\w+) (tab|section|area)", target.lower()) at
\* start position i: the optional "the " is tried first
LocAt(tl, i) ==
    IF ~EndsWithIn(tl[i]) THEN None
    ELSE IF /\ i + 3 <= Len(tl)
            /\ tl[i + 1] = "the"
            /\ IsWordChars(tl[i + 2])
            /\ StartsWithLocKind(tl[i + 3])
         THEN Some(tl[i + 2])
    ELSE IF /\ i + 2 <= Len(tl)
            /\ IsWordChars(tl[i + 1])
            /\ StartsWithLocKind(tl[i + 2])
         THEN Some(tl[i + 1])
    ELSE None

\* expected_location = location_match.group(1) if location_match else None
ExpectedLocation(t) ==
    LET tl == Lower(t)
        hits == { i \in 1..Len(tl) : LocAt(tl, i) /= None }
    IN  IF hits = {} THEN None
        ELSE LocAt(tl, CHOOSE i \in hits : \A k \in hits : i <= k)

(***************************************************************************)
(* Records: messages, driver calls, results                                *)
(***************************************************************************)
\* A formatted text: the template's tag and the values put into it
Msg(tag, a, b, n) == [tag |-> tag, a |-> a, b |-> b, n |-> n]

\* A call on the page: operation, selector, milliseconds, value written
Call(op, sel, ms, val) == [op |-> op, sel |-> sel, ms |-> ms, val |-> val]

\* A result dict of the executors; an absent key reads as None
NoResult ==
    [status |-> "none", message |-> Msg("", << >>, << >>, 0),
     selector_used |-> None, text_content |-> None, numeric_value |-> None,
     location_verified |-> None, location_mismatch |-> None,
     screenshot |-> None, error |-> None]

\* The text of the exceptions the driver raises, and str(e)[:100] of them:
\* the long text is cut, the short one is kept whole
Trunc100(e) == IF e = "E_long" THEN "E_long[:100]" ELSE e

\* What a call of an executor or of execute_step gives: a result or an
\* exception, with the driver calls issued and the lines printed
Returned(result, calls, log) ==
    [raised |-> FALSE, exc |-> Msg("", << >>, << >>, 0), result |-> result,
     calls |-> calls, log |-> log]

Raised(exc, calls, log) ==
    [raised |-> TRUE, exc |-> exc, result |-> NoResult, calls |-> calls, log |-> log]

\* AttributeError of None.lower() on an absent target
AttrError == Msg("'NoneType' object has no attribute 'lower'", << >>, << >>, 0)

\* target.lower() where the target is known to be present
TargetLower(target) == Lower(target[1])

\* f"{target}" of an optional target
TargetText(target) == IF target = None THEN <<"None">> ELSE target[1]

(***************************************************************************)
(* The page: what the driver answers during one step                       *)
(***************************************************************************)
\* A page record holds
\*   dead    the session is gone: every call on the page raises
\*   gotoOk  page.goto succeeds           shotOk  page.screenshot succeeds
\*   idleOk  wait_for_load_state("networkidle") returns before its timeout
\*   err     the text of the exceptions the driver raises
\*   probe   selector -> what probing it gives (selectors outside the domain
\*           match nothing and time out)
\*   dom     the elements the verify executor's queries see (see Verify)
GotoOk(page) == ~page.dead /\ page.gotoOk
ShotOk(page) == ~page.dead /\ page.shotOk
IdleOk(page) == ~page.dead /\ page.idleOk

ProbeOf(page, sel) ==
    IF page.dead \/ sel \notin DOMAIN page.probe THEN "timeout" ELSE page.probe[sel]

DriverExc(page) == Msg(page.err, << >>, << >>, 0)

NoVal == << >>

\* await page.screenshot(...) inside try/except: the call is issued, a
\* failure is swallowed
TryScreenshot(kind) == <<Call("screenshot", kind, 0, NoVal)>>

(***************************************************************************)
(* generate_fallback_selectors                                             *)
(***************************************************************************)
EmailSelectors ==
    <<"#email", "#username", "#user", "#login-email", "#user-email",
      "input[name='email']", "input[name='username']", "input[name='user']",
      "input[type='email']", "input[type='text']",
      "input[placeholder*='email' i]", "input[placeholder*='username' i]",
      "input[placeholder*='user' i]",
      ".email-input", ".login-email", ".user-email", ".username-input",
      "input[aria-label*='email' i]", "input[aria-label*='username' i]",
      "input[data-testid='email']", "input[data-testid='username']">>

PasswordSelectors ==
    <<"#password", "#passwd", "#pass", "#user-password", "#login-password",
      "input[name='password']", "input[name='passwd']", "input[name='pass']",
      "input[type='password']",
      "input[placeholder*='password' i]", "input[placeholder*='pass' i]",
      ".password-input", ".login-password",
      "input[aria-label*='password' i]",
      "input[data-testid='password']">>

\* A list that keeps every entry of the family
KeepAll(sels) == sels

\* Remove duplicates while preserving order
RECURSIVE UniqueFrom(_, _)
UniqueFrom(sels, acc) ==
    IF sels = << >> THEN acc
    ELSE UniqueFrom(Tail(sels),
                    IF Head(sels) \in Range(acc) THEN acc ELSE Append(acc, Head(sels)))

Unique(sels) == UniqueFrom(sels, << >>)

\* The text of a word sequence: words joined by sep, a quote mark written
\* against the word it opens or closes
RECURSIVE RenderFrom(_, _, _, _, _)
RenderFrom(t, sep, i, inQuote, glue) ==
    IF i > Len(t) THEN ""
    ELSE IF t[i] \in QuoteMarks /\ inQuote
         THEN t[i] \o RenderFrom(t, sep, i + 1, FALSE, FALSE)
    ELSE (IF glue THEN "" ELSE sep) \o t[i]
         \o RenderFrom(t, sep, i + 1,
                       IF t[i] \in QuoteMarks THEN TRUE ELSE inQuote,
                       t[i] \in QuoteMarks)

Render(t, sep) == RenderFrom(t, sep, 1, FALSE, TRUE)

\* str.title() on one lower-case word
TitleWord(w) ==
    CASE w = "completed" -> "Completed"
      [] w = "complete" -> "Complete"
      [] w = "login" -> "Login"
      [] w = "log" -> "Log"
      [] w = "submit" -> "Submit"
      [] w = "field" -> "Field"
      [] w = "count" -> "Count"
      [] w = "tot" -> "Tot"
      [] w = "ssword" -> "Ssword"
      [] OTHER -> w

\* What is left of one lower-case word after cleaned.replace(word, ' ') for
\* 'button', 'btn', 'click', 'on', 'the', 'of', 'a', 'an', 'for', 'in', 'task'
\* in that order, split at the blanks.  The replacement is on substrings, so
\* it cuts inside words: "login" leaves "log", "total" leaves "tot" and "l".
CleanPieces(w) ==
    CASE w \in {"button", "btn", "click", "on", "the", "of", "a", "an", "for",
                "in", "task"} -> << >>
      [] w = "login" -> <<"log">>
      [] w = "total" -> <<"tot", "l">>
      [] w = "jar" -> <<"j", "r">>
      [] w = "tab" -> <<"t", "b">>
      [] w = "table" -> <<"t", "ble">>
      [] w = "navbar" -> <<"n", "vb", "r">>
      [] w = "password" -> <<"p", "ssword">>
      [] w = "email" -> <<"em", "il">>
      [] w = "username" -> <<"usern", "me">>
      [] OTHER -> <<w>>

RECURSIVE CleanedSplit(_)
CleanedSplit(tl) ==
    IF tl = << >> THEN << >> ELSE CleanPieces(Head(tl)) \o CleanedSplit(Tail(tl))

\* keywords = [k.strip() for k in cleaned.split() if len(k.strip()) > 2]:
\* of the fragments above, the ones longer than two characters
ShortPieces == {"'", "\"", "l", "j", "r", "t", "b", "n", "vb", "p", "em", "il", "me"}

Keywords(tl) == SelectSeq(CleanedSplit(tl), LAMBDA k : k \notin ShortPieces)

TranslateDot ==
    "translate(., 'ABCDEFGHIJKLMNOPQRSTUVWXYZ', 'abcdefghijklmnopqrstuvwxyz')"

TranslateText ==
    "translate(text(), 'ABCDEFGHIJKLMNOPQRSTUVWXYZ', 'abcdefghijklmnopqrstuvwxyz')"

\* The words of a tab target that are left when the quoted text is absent
TabWords(t) ==
    SelectSeq(t, LAMBDA w : LowerWord(w) \notin {"click", "on", "the", "tab", "button"})

\* tab_name: the quoted text, else the first word left, else "tab"
TabName(ctx, words) ==
    IF ContextTruthy(ctx) THEN Render(ctx[1], " ")
    ELSE IF words /= << >> THEN words[1] ELSE "tab"

\* tab_name.lower()
TabLower(ctx, words) ==
    IF ContextTruthy(ctx) THEN Render(Lower(ctx[1]), " ")
    ELSE IF words /= << >> THEN LowerWord(words[1]) ELSE "tab"

\* The selectors of the tab family for a tab name
TabSelectorsFor(tab_name, tab_lower) ==
        <<"a.nav-link:has-text('" \o tab_name \o "')",
          "//a[contains(@class, 'nav-link')][contains(., '" \o tab_name \o "')]",
          "//a[contains(@class, 'nav-link')][contains(" \o TranslateDot \o ", '" \o tab_lower \o "')]",
          ".nav-item a:has-text('" \o tab_name \o "')",
          "//li[contains(@class, 'nav-item')]//a[contains(., '" \o tab_name \o "')]",
          "a[href*='" \o tab_lower \o "']",
          "a[href*='filter=" \o tab_lower \o "']",
          "//a[contains(@href, '" \o tab_lower \o "')]",
          "//a[contains(@href, 'filter=" \o tab_lower \o "')]",
          "a[role='tab']:has-text('" \o tab_name \o "')",
          "button[role='tab']:has-text('" \o tab_name \o "')",
          "//a[@role='tab'][contains(., '" \o tab_name \o "')]",
          "[class*='nav-link']:has-text('" \o tab_name \o "')",
          "[class*='nav']:has-text('" \o tab_name \o "')",
          ".tab:has-text('" \o tab_name \o "')",
          ".tab-button:has-text('" \o tab_name \o "')",
          "a:has-text('" \o tab_name \o "')",
          "button:has-text('" \o tab_name \o "')",
          "//a[contains(" \o TranslateText \o ", '" \o tab_lower \o "')]",
          ".nav-link", ".nav-item a",
          "[role='tab']",
          ".tab", ".tab-button",
          "a", "button">>

\* The list with its role=tab selectors moved to the front
AriaFirst(l) == SubSeq(l, 10, 12) \o SubSeq(l, 1, 9) \o SubSeq(l, 13, Len(l))

TabSelectorsAriaFirst(t) ==
    AriaFirst(TabSelectorsFor(TabName(ContextText(t), TabWords(t)),
                              TabLower(ContextText(t), TabWords(t))))

TabSelectors(t) ==
    TabSelectorsFor(TabName(ContextText(t), TabWords(t)),
                    TabLower(ContextText(t), TabWords(t)))

\* Strategy 1: the action button near the quoted text.  c is the quoted
\* text, cl its lower case, b the first keyword
ButtonHdr(h, c, b) ==
    "//" \o h \o "[contains(., '" \o c \o "')]/ancestor::div[1]//button[contains("
    \o TranslateText \o ", '" \o b \o "')]"

ButtonBox(e, c, b) ==
    "//" \o e \o "[contains(., '" \o c \o "')]//button[contains("
    \o TranslateText \o ", '" \o b \o "')]"

ContextButtonSelectors(c, cl, b) ==
    <<ButtonHdr("h1", c, b), ButtonHdr("h2", c, b), ButtonHdr("h3", c, b),
      ButtonHdr("h4", c, b), ButtonHdr("h5", c, b), ButtonHdr("h6", c, b),
      "//h5[contains(., '" \o c \o "')]/ancestor::div[contains(@class, 'card')]//button",
      "//h5[contains(., '" \o c \o "')]/ancestor::div[contains(@class, 'row')]//button",
      "//h4[contains(., '" \o c \o "')]/ancestor::div[contains(@class, 'card')]//button",
      "//h3[contains(., '" \o c \o "')]/ancestor::div[contains(@class, 'card')]//button",
      "//h5[contains(., '" \o c \o "')]/ancestor::*[self::div or self::li or self::tr][1]//button",
      "//h5[contains(" \o TranslateDot \o ", '" \o cl \o "')]/ancestor::div[1]//button",
      "//h4[contains(" \o TranslateDot \o ", '" \o cl \o "')]/ancestor::div[1]//button",
      ButtonBox("div", c, b), ButtonBox("li", c, b), ButtonBox("tr", c, b),
      ".card:has-text('" \o c \o "') button:has-text('" \o TitleWord(b) \o "')",
      ".task-item:has-text('" \o c \o "') button:has-text('" \o b \o "')",
      ".item:has-text('" \o c \o "') button:has-text('" \o b \o "')",
      "[data-task-name='" \o c \o "'] button",
      "[data-item-name='" \o c \o "'] button",
      "[data-name='" \o c \o "'] button",
      "//div[contains(., '" \o c \o "')]//button",
      "//li[contains(., '" \o c \o "')]//button",
      "button:has-text('" \o TitleWord(b) \o "')",
      "button:has-text('" \o b \o "')",
      "//button[contains(" \o TranslateText \o ", '" \o b \o "')]",
      "button." \o b, ".btn-" \o b,
      "button[data-action='" \o b \o "']",
      "button[aria-label*='" \o b \o "' i]",
      "button[type='button']", "button[type='submit']",
      "button", ".btn">>

\* Strategy 2: keywords only
KeywordButtonSelectors(b) ==
    <<"#" \o b \o "-btn", "#" \o b \o "-button", "#" \o b,
      "button:has-text('" \o TitleWord(b) \o "')",
      "button:has-text('" \o b \o "')",
      "//button[contains(text(), '" \o b \o "')]",
      "button." \o b, ".btn-" \o b,
      "button[type='submit']", "button", ".btn">>

\* The button family, given quoted (the first quoted text, None when there
\* is none) and the keywords
ButtonSelectorsFor(quoted, keywords) ==
    IF quoted /= None /\ keywords /= << >>
    THEN ContextButtonSelectors(Render(quoted[1], " "), Render(Lower(quoted[1]), " "),
                                keywords[1])
    ELSE IF keywords /= << >> THEN KeywordButtonSelectors(keywords[1])
    ELSE <<"button[type='submit']", "input[type='submit']",
           "button", ".btn", ".button",
           "a[role='button']">>

ButtonSelectors(t) == ButtonSelectorsFor(ContextText(t), Keywords(Lower(t)))

\* str.strip() of a text given as the pieces between single blanks: empty
\* pieces at either end are dropped
RECURSIVE DropEmptyLeft(_)
DropEmptyLeft(ps) ==
    IF ps /= << >> /\ Head(ps) = "" THEN DropEmptyLeft(Tail(ps)) ELSE ps

RECURSIVE DropEmptyRight(_)
DropEmptyRight(ps) ==
    IF ps /= << >> /\ ps[Len(ps)] = "" THEN DropEmptyRight(SubSeq(ps, 1, Len(ps) - 1))
    ELSE ps

RECURSIVE JoinBlank(_)
JoinBlank(ps) ==
    IF ps = << >> THEN ""
    ELSE IF Len(ps) = 1 THEN ps[1]
    ELSE ps[1] \o " " \o JoinBlank(Tail(ps))

\* target_lower.replace('link', '').strip()
LinkText(tl) ==
    JoinBlank(DropEmptyRight(DropEmptyLeft(
        [i \in 1..Len(tl) |-> IF tl[i] = "link" THEN "" ELSE tl[i]])))

LinkSelectorsFor(link_text) ==
    <<"a:has-text('" \o link_text \o "')", "a[href*='" \o link_text \o "']",
      "a", ".link">>

LinkSelectors(t) == LinkSelectorsFor(LinkText(Lower(t)))

\* The generic family for target, target.replace(' ', '-') and
\* target.replace(' ', '_')
GenericSelectorsFor(target, dashed, under) ==
        <<"#" \o target, "#" \o dashed, "#" \o under,
          "[name='" \o target \o "']", "[name='" \o dashed \o "']",
          "." \o target, "." \o dashed, "." \o under,
          "[class*='" \o target \o "']", "[class*='" \o dashed \o "']",
          "[data-testid='" \o target \o "']", "[data-testid*='" \o target \o "']",
          "[data-id='" \o target \o "']", "[data-name='" \o target \o "']",
          "h1", "h2", "h3", ".metric", ".stat", ".count", ".value",
          "div", "span", "p">>

GenericSelectors(t) == GenericSelectorsFor(Render(t, " "), Render(t, "-"), Render(t, "_"))

\* A chain that asks for the password keywords first
FamilyPasswordFirst(tl) ==
        IF Contains(tl, "password") \/ Contains(tl, "pass") THEN "password"
        ELSE IF Contains(tl, "email") \/ Contains(tl, "username") \/ Contains(tl, "user")
            THEN "email"
        ELSE IF Contains(tl, "tab") \/ Contains(tl, "nav") THEN "tab"
        ELSE IF \/ Contains(tl, "button") \/ Contains(tl, "submit")
                \/ Contains(tl, "btn") \/ Contains(tl, "click") THEN "button"
        ELSE IF Contains(tl, "link") THEN "link"
        ELSE "generic"

\* The family of a target, first match in the order of the if/elif chain
FamilyOfLower(tl) ==
        IF Contains(tl, "email") \/ Contains(tl, "username") \/ Contains(tl, "user")
            THEN "email"
        ELSE IF Contains(tl, "password") \/ Contains(tl, "pass") THEN "password"
        ELSE IF Contains(tl, "tab") \/ Contains(tl, "nav") THEN "tab"
        ELSE IF \/ Contains(tl, "button") \/ Contains(tl, "submit")
                \/ Contains(tl, "btn") \/ Contains(tl, "click") THEN "button"
        ELSE IF Contains(tl, "link") THEN "link"
        ELSE "generic"

FamilyOf(t) == FamilyOfLower(Lower(t))

\* generate_fallback_selectors(target), for a target that is a string
FamilySelectors(f, t) ==
    CASE f = "email" -> EmailSelectors
      [] f = "password" -> PasswordSelectors
      [] f = "tab" -> TabSelectors(t)
      [] f = "button" -> ButtonSelectors(t)
      [] f = "link" -> LinkSelectors(t)
      [] OTHER -> GenericSelectors(t)

GenerateFallbackSelectors(t) == Unique(FamilySelectors(FamilyOf(t), t))

(***************************************************************************)
(* execute_fill_action                                                     *)
(***************************************************************************)
\* The for loop over the selectors, from the i-th on.  A page answers a
\* probe for fill with "timeout" (wait_for_selector raises), "fill_err"
\* (page.fill raises), "mismatch" (input_value differs from the value
\* written) or "ok".
\* A loop that probes every selector, whatever the probes give
FillLoopAll(page, selectors, i, value, is_password, last_error, calls) ==
    [found |-> selectors /= << >>,
     sel |-> IF selectors /= << >> THEN selectors[1] ELSE "",
     last_error |-> last_error,
     calls |-> calls \o [k \in 1..Len(selectors) |->
                            Call("wait_for_selector", selectors[k], 3000, NoVal)]]

\* A loop that gives up at the first value that reads back differently
RECURSIVE FillLoopStopAtMismatch(_, _, _, _, _, _, _)
FillLoopStopAtMismatch(page, selectors, i, value, is_password, last_error, calls) ==
    IF i > Len(selectors)
    THEN [found |-> FALSE, sel |-> "", last_error |-> last_error, calls |-> calls]
    ELSE IF ProbeOf(page, selectors[i]) \in {"timeout", "fill_err"}
    THEN FillLoopStopAtMismatch(page, selectors, i + 1, value, is_password,
                                Trunc100(page.err),
                                Append(calls, Call("wait_for_selector", selectors[i], 3000, NoVal)))
    ELSE IF is_password \/ ProbeOf(page, selectors[i]) = "ok"
    THEN [found |-> TRUE, sel |-> selectors[i], last_error |-> last_error,
          calls |-> Append(calls, Call("wait_for_selector", selectors[i], 3000, NoVal))]
    ELSE [found |-> FALSE, sel |-> "", last_error |-> "Value mismatch",
          calls |-> Append(calls, Call("wait_for_selector", selectors[i], 3000, NoVal))]

RECURSIVE FillLoop(_, _, _, _, _, _, _)
FillLoop(page, selectors, i, value, is_password, last_error, calls) ==
    IF i > Len(selectors)
    THEN [found |-> FALSE, sel |-> "", last_error |-> last_error, calls |-> calls]
    ELSE
        LET sel == selectors[i]
            o == ProbeOf(page, sel)
            c1 == Append(calls, Call("wait_for_selector", sel, 3000, NoVal))
            c2 == Append(c1, Call("fill", sel, 0, << >>))
            c3 == c2 \o <<Call("wait_for_timeout", "", 100, NoVal),
                           Call("fill", sel, 0, value),
                           Call("wait_for_timeout", "", 100, NoVal)>>
            c4 == Append(c3, Call("input_value", sel, 0, NoVal))
        IN  IF o = "timeout"
            THEN FillLoop(page, selectors, i + 1, value, is_password,
                          Trunc100(page.err), c1)
            ELSE IF o = "fill_err"
            THEN FillLoop(page, selectors, i + 1, value, is_password,
                          Trunc100(page.err), c2)
            ELSE IF is_password
            THEN [found |-> TRUE, sel |-> sel, last_error |-> last_error, calls |-> c3]
            ELSE IF o = "mismatch"
            THEN FillLoop(page, selectors, i + 1, value, is_password,
                          "Value mismatch", c4)
            ELSE [found |-> TRUE, sel |-> sel, last_error |-> last_error, calls |-> c4]

\* What execute_fill_action makes of the loop's outcome r: the result dict,
\* or the exception after the last selector
FillOutcome(r, target, attempts) ==
    IF r.found
    THEN Returned([NoResult EXCEPT
                      !.status = "success",
                      !.message = Msg("Filled successfully", target[1], << >>, 0),
                      !.selector_used = Some(r.sel)],
                  r.calls, << >>)
    ELSE Raised(Msg("Failed to fill after attempts. Last error",
                    target[1], <<r.last_error>>, attempts),
                r.calls, << >>)

\* selectors, or the generated ones when the step supplies none
SelectorsOrFallback(selectors0, target) ==
    IF selectors0 = << >> THEN GenerateFallbackSelectors(target[1]) ELSE selectors0

\* No target is taken for a password field
NeverPasswordField(target) == FALSE

\* is_password = "password" in target.lower()
IsPasswordField(target) == Contains(TargetLower(target), "password")

FillWith(page, selectors, value, target) ==
    FillOutcome(FillLoop(page, selectors, 1, value, IsPasswordField(target), "None", << >>),
                target, Len(selectors))

ExecuteFillAction(page, selectors0, value, target) ==
    IF target = None
    THEN Raised(AttrError, << >>, << >>)   \* target.lower() on None
    ELSE FillWith(page, SelectorsOrFallback(selectors0, target), value, target)

(***************************************************************************)
(* execute_click_action                                                    *)
(***************************************************************************)
\* The for loop over the de-duplicated selectors.  A page answers a probe
\* for click with "timeout" (wait_for_selector raises), "empty"
\* (query_selector_all returns no element), "hidden" (the first element is
\* not visible), "click_err" (element.click raises), "ok" or "ok_many"
\* (several elements match; the first one is clicked).
RECURSIVE ClickLoop(_, _, _, _, _, _)
ClickLoop(page, selectors, i, is_tab_click, last_error, calls) ==
    IF i > Len(selectors)
    THEN [found |-> FALSE, sel |-> "", last_error |-> last_error, calls |-> calls]
    ELSE
        LET sel == selectors[i]
            o == ProbeOf(page, sel)
            c1 == Append(calls, Call("wait_for_selector", sel,
                                     IF is_tab_click THEN 5000 ELSE 3000, NoVal))
            c2 == Append(c1, Call("query_selector_all", sel, 0, NoVal))
            c3 == Append(c2, Call("is_visible", sel, 0, NoVal))
            c4 == c3 \o <<Call("text_content", sel, 0, NoVal),
                           Call("click", sel, 0, NoVal)>>
            c5 == Append(c4, Call("wait_for_timeout", "",
                                  IF is_tab_click THEN 1500 ELSE 300, NoVal))
        IN  IF o = "timeout"
            THEN ClickLoop(page, selectors, i + 1, is_tab_click, Trunc100(page.err), c1)
            ELSE IF o = "empty"
            THEN ClickLoop(page, selectors, i + 1, is_tab_click,
                           "Selector matched but no elements found", c2)
            ELSE IF o = "hidden"
            THEN ClickLoop(page, selectors, i + 1, is_tab_click,
                           "Element found but not visible", c3)
            ELSE IF o = "click_err"
            THEN ClickLoop(page, selectors, i + 1, is_tab_click, Trunc100(page.err), c4)
            ELSE [found |-> TRUE, sel |-> sel, last_error |-> last_error, calls |-> c5]

\* The list the click loop iterates: the supplied or generated selectors
\* with later duplicates removed
ClickCandidates(selectors0, target) == Unique(SelectorsOrFallback(selectors0, target))

IsTabClick(target) ==
    Contains(TargetLower(target), "tab") \/ Contains(TargetLower(target), "nav")

\* The wait before the loop of a tab click
TabPreWait(is_tab_click) ==
    IF is_tab_click THEN <<Call("wait_for_timeout", "", 1000, NoVal)>> ELSE << >>

\* The debug capture after the loop: a failed screenshot skips the query
\* for the page's buttons, and nothing is raised
ClickDebug(page) ==
    IF ShotOk(page)
    THEN <<Call("screenshot", "click_failed", 0, NoVal),
           Call("query_selector_all", "button, a[role='button'], input[type='button'], input[type='submit']", 0, NoVal)>>
    ELSE <<Call("screenshot", "click_failed", 0, NoVal)>>

\* An outcome whose exception leaves the last error out
ClickOutcomeNoLastError(r, page, target, attempts) ==
    IF r.found
    THEN Returned([NoResult EXCEPT
                      !.status = "success",
                      !.message = Msg("Clicked successfully", target[1], << >>, 0),
                      !.selector_used = Some(r.sel)],
                  r.calls, << >>)
    ELSE Raised(Msg("Failed to click after attempts. Last error",
                    target[1], <<"None">>, attempts),
                r.calls, << >>)

\* What execute_click_action makes of the loop's outcome r
ClickOutcome(r, page, target, attempts) ==
    IF r.found
    THEN Returned([NoResult EXCEPT
                      !.status = "success",
                      !.message = Msg("Clicked successfully", target[1], << >>, 0),
                      !.selector_used = Some(r.sel)],
                  r.calls, << >>)
    ELSE Raised(Msg("Failed to click after attempts. Last error",
                    target[1], <<r.last_error>>, attempts),
                r.calls \o ClickDebug(page), << >>)

ClickWith(page, selectors, is_tab_click, target) ==
    IF is_tab_click /\ page.dead
    THEN Raised(DriverExc(page), TabPreWait(is_tab_click), << >>)
    ELSE ClickOutcome(ClickLoop(page, selectors, 1, is_tab_click, "None",
                                TabPreWait(is_tab_click)),
                      page, target, Len(selectors))

ExecuteClickAction(page, selectors0, target) ==
    IF target = None
    THEN Raised(AttrError, << >>, << >>)   \* target.lower() on None
    ELSE ClickWith(page, ClickCandidates(selectors0, target), IsTabClick(target), target)

(***************************************************************************)
(* execute_verify_action                                                   *)
(***************************************************************************)
\* page.dom describes what the queries of the verify executor see:
\*   anchors     the elements whose text contains the anchor, in document
\*               order, each with
\*                 underActive  a div.tab-pane.active is among its ancestors
\*                 underPanel   a div[role=tabpanel] without an inline
\*                              display:none is among its ancestors
\*                 h5           it is an h5
\*                 direct       one of its own text nodes holds the anchor
\*                 visible      element.is_visible()
\*                 closest      its nearest .tab-pane ancestor: "active",
\*                              "inactive" or "none"
\*                 text         element.text_content()
\*   text        text_content() of the element a selector of strategy 1 finds
\*   containers  the containers the templates of strategy 2 find, each with
\*               the index of its template, visible, and its inner elements
\*   scan        the elements of the keyword scan, each with visible, text
\*               and hasKw (a keyword of the target occurs in the text)
\*   tabActive   the first of the active tab selectors that finds a visible
\*               link of the tab named by the location, 0 when the tab
\*               named is not the active one
\*   bodyHasKw   a keyword of the target occurs in document.body.innerText
\*   bodyHasFirst  the first keyword does
\*   snippet     the page text around the first keyword
\* Calls on element handles (is_visible, text_content) are not logged here;
\* the calls on the page are.

\* context_patterns[:4] of the strict block, and the elements each finds
StrictPattern(k, c) ==
    CASE k = 1 -> "//div[contains(@class, 'tab-pane') and contains(@class, 'active')]//h5[contains(., '" \o c \o "')]"
      [] k = 2 -> "//div[contains(@class, 'tab-pane') and contains(@class, 'active')]//*[contains(., '" \o c \o "')]"
      [] k = 3 -> "//div[@role='tabpanel' and not(contains(@style, 'display: none'))]//h5[contains(., '" \o c \o "')]"
      [] k = 4 -> "//div[@role='tabpanel' and not(contains(@style, 'display: none'))]//*[contains(., '" \o c \o "')]"

StrictMatches(anchors, k) ==
    SelectSeq(anchors, LAMBDA e :
        CASE k = 1 -> e.underActive /\ e.h5
          [] k = 2 -> e.underActive
          [] k = 3 -> e.underPanel /\ e.h5
          [] k = 4 -> e.underPanel)

\* No element is ever taken to be in a wrong tab
NeverInWrongTab(e) == FALSE

\* is_in_wrong_tab: the nearest .tab-pane exists and is not active
IsInWrongTab(e) == e.closest = "inactive"

\* An element of a strict pattern's result that ends the search with success
StrictAccepts(e) == e.visible /\ ~IsInWrongTab(e)

\* The first pattern (1..4) with an accepted element, 0 when there is none
StrictFirstPattern(anchors) ==
    LET ok == { k \in 1..4 :
                  \E i \in 1..Len(StrictMatches(anchors, k)) :
                      StrictAccepts(StrictMatches(anchors, k)[i]) }
    IN  IF ok = {} THEN 0 ELSE CHOOSE k \in ok : \A m \in ok : k <= m

FirstAccepted(es) ==
    es[CHOOSE i \in 1..Len(es) :
          StrictAccepts(es[i]) /\ \A j \in 1..(i - 1) : ~StrictAccepts(es[j])]

\* other_location_count: the visible ones among the first five matches of
\* "//h5[contains(., ctx)] | //*[contains(text(), ctx)]"
OtherLocationCount(anchors) ==
    LET all == SelectSeq(anchors, LAMBDA e : e.h5 \/ e.direct)
        first5 == Prefix(all, 5)
    IN  Cardinality({ i \in 1..Len(first5) : first5[i].visible })

\* active_tab_selectors for the expected location
ActiveTabSelectors(loc) ==
    <<"a.nav-link.active:has-text('" \o TitleWord(loc) \o "')",
      "//a[contains(@class, 'nav-link') and contains(@class, 'active')][contains(., '" \o TitleWord(loc) \o "')]",
      "[role='tab'][aria-selected='true']:has-text('" \o TitleWord(loc) \o "')">>

\* The queries for the active tab link.  hit is the first selector that
\* finds a visible link of the active tab named by the location (0: none
\* does, the tab named is not the active one); a hit ends the queries, and
\* tab_verified only changes what is printed
TabCheckCalls(loc, hit) ==
    [i \in 1..(IF hit = 0 THEN 3 ELSE hit) |->
        Call("query_selector", ActiveTabSelectors(loc)[i], 0, NoVal)]

\* The queries of the first n strict patterns
StrictQueries(n, c) ==
    [i \in 1..n |-> Call("query_selector_all", "xpath=" \o StrictPattern(i, c), 0, NoVal)]

\* The strict block ends with success: e is the accepted element, found by
\* pattern k; calls are the calls up to the end of the tab check
StrictFound(e, k, c, ctx, loc, calls) ==
    Returned([NoResult EXCEPT
                 !.status = "success",
                 !.message = Msg("Verified: Found in tab", ctx,
                                 Prefix(Strip(e.text), 100), 0),
                 !.selector_used = Some(StrictPattern(k, c)),
                 !.text_content = Some(Strip(e.text)),
                 !.location_verified = Some(TRUE)],
             calls \o StrictQueries(k, c), << >>)

\* No pattern gave an accepted element: the location mismatch dict, others
\* being other_location_count
StrictMismatch(others, c, ctx, loc, calls) ==
    Returned([NoResult EXCEPT
                 !.status = "failed",
                 !.message = Msg("LOCATION MISMATCH: NOT found in tab", ctx,
                                 <<IF others > 0 THEN "found in other location(s)"
                                   ELSE "not found anywhere">>, others),
                 !.selector_used = Some("location_validation"),
                 !.text_content = Some(<<"Expected in tab but not present">>),
                 !.location_verified = Some(FALSE),
                 !.location_mismatch = Some(TRUE)],
             calls \o StrictQueries(4, c)
                   \o <<Call("query_selector_all",
                             "//h5[contains(., '" \o c \o "')] | //*[contains(text(), '"
                                 \o c \o "')]", 0, NoVal)>>,
             << >>)

StrictWith(anchors, k, c, ctx, loc, calls) ==
    IF k /= 0
    THEN StrictFound(FirstAccepted(StrictMatches(anchors, k)), k, c, ctx, loc, calls)
    ELSE StrictMismatch(OtherLocationCount(anchors), c, ctx, loc, calls)

\* The strict block: both an anchor and a location were extracted
VerifyStrict(page, ctx, loc, calls) ==
    StrictWith(page.dom.anchors, StrictFirstPattern(page.dom.anchors),
               Render(ctx, " "), ctx, loc,
               calls \o TabCheckCalls(loc, page.dom.tabActive))

\* Strategy 1, the for loop over the selectors from the i-th on.  A page
\* answers a probe for verify with "timeout" (wait_for_selector raises),
\* "hidden" (the element is not visible), "notext" (visible, no text),
\* "text" (visible, with page.dom.text, which holds the anchor if there is
\* one) or "text_noctx" (the same text, without the anchor).
RECURSIVE VerifyLoop(_, _, _, _, _, _)
VerifyLoop(page, selectors, i, ctx, last_error, calls) ==
    IF i > Len(selectors)
    THEN [found |-> FALSE, sel |-> "", text |-> None,
          last_error |-> last_error, calls |-> calls]
    ELSE
        LET sel == selectors[i]
            o == ProbeOf(page, sel)
            c1 == Append(calls, Call("wait_for_selector", sel, 2000, NoVal))
            raw == page.dom.text
            text_content == Strip(raw)
            hasCtx == o = "text" /\ text_content /= << >>
        IN  IF o = "timeout"
            THEN VerifyLoop(page, selectors, i + 1, ctx, Trunc100(page.err), c1)
            ELSE IF o = "hidden"
            THEN VerifyLoop(page, selectors, i + 1, ctx,
                            "Element exists but not visible", c1)
            ELSE IF o = "notext" \/ raw = << >>
            THEN [found |-> TRUE, sel |-> sel, text |-> None,
                  last_error |-> last_error, calls |-> c1]
            ELSE IF ContextTruthy(ctx) /\ ~hasCtx
            THEN VerifyLoop(page, selectors, i + 1, ctx, last_error, c1)
            ELSE [found |-> TRUE, sel |-> sel, text |-> Some(text_content),
                  last_error |-> last_error, calls |-> c1]

\* context_patterns of strategy 2
ContainerPattern(k, c) ==
    CASE k = 1 -> "//h5[contains(., '" \o c \o "')]/ancestor::div[1]"
      [] k = 2 -> "//h4[contains(., '" \o c \o "')]/ancestor::div[1]"
      [] k = 3 -> "//h3[contains(., '" \o c \o "')]/ancestor::div[1]"
      [] k = 4 -> "//div[contains(@class, 'card')][.//*[contains(., '" \o c \o "')]]"
      [] k = 5 -> "//div[contains(@class, 'task')][.//*[contains(., '" \o c \o "')]]"
      [] k = 6 -> "//li[contains(., '" \o c \o "')]"
      [] k = 7 -> "//tr[contains(., '" \o c \o "')]"

\* An inner element of a container that ends strategy 2: visible, with a
\* text, and a number in it or something left after strip()
InnerTaken(e) ==
    /\ e.visible
    /\ e.text /= << >>
    /\ (NumericValueOf(Strip(e.text)) /= None \/ Len(Strip(e.text)) > 0)

\* The containers strategy 2 looks into: visible and, when a location is
\* expected, with the location named in their text or their pane's text
ContainerTaken(cn, loc) == cn.visible /\ (loc = None \/ cn.locNear)

\* <<template, container, inner element>> of the first element strategy 2
\* returns, in the order of the nested loops; << >> when there is none
Strategy2Hit(dom, loc) ==
    LET cs == dom.containers
        inners == UNION { DOMAIN cs[i].inner : i \in 1..Len(cs) }
        hits == { h \in (1..7) \X (1..Len(cs)) \X inners :
                    /\ cs[h[2]].tmpl = h[1]
                    /\ ContainerTaken(cs[h[2]], loc)
                    /\ h[3] <= Len(cs[h[2]].inner)
                    /\ InnerTaken(cs[h[2]].inner[h[3]]) }
        before(g, h) == \/ g[1] < h[1]
                        \/ g[1] = h[1] /\ g[2] < h[2]
                        \/ g[1] = h[1] /\ g[2] = h[2] /\ g[3] <= h[3]
    IN  IF hits = {} THEN << >>
        ELSE CHOOSE h \in hits : \A g \in hits : before(h, g)

\* The first element of the keyword scan (strategy 4) that is taken, 0 when
\* there is none; the scan reads the first 50 elements
ScanHit(dom) ==
    LET es == Prefix(dom.scan, 50)
        ok == { i \in 1..Len(es) : es[i].visible /\ es[i].text /= << >> /\ es[i].hasKw }
    IN  IF ok = {} THEN 0 ELSE CHOOSE i \in ok : \A j \in ok : i <= j

\* The lower-case words of the target without its quote marks:
\* target.lower().replace("'", "").replace('"', '').split()
SearchKeywords(t) == SelectSeq(Lower(t), LAMBDA w : w \notin QuoteMarks)

\* TypeError of re.search on an absent target
TypeError == Msg("expected string or bytes-like object", << >>, << >>, 0)

\* The queries of the first n container templates
ContainerQueries(n, c) ==
    [i \in 1..n |-> Call("query_selector_all", "xpath=" \o ContainerPattern(i, c), 0, NoVal)]

\* The calls of strategy 2: none without an anchor, else the templates up
\* to the one that gave the element (h2), or all seven
Strategy2Calls(ctx, h2, c) ==
    IF ~ContextTruthy(ctx) THEN << >>
    ELSE IF h2 = << >> THEN ContainerQueries(7, c) ELSE ContainerQueries(h2[1], c)

ScanCall == Call("query_selector_all", "span, div, h1, h2, h3, h4, h5, p, td, li", 0, NoVal)

\* Strategy 1 found an element: with its text, or visible without one
Strategy1Result(r, t) ==
    IF r.text /= None
    THEN Returned([NoResult EXCEPT
                      !.status = "success",
                      !.message = Msg("Element found. Content", t, r.text[1], 0),
                      !.selector_used = Some(r.sel),
                      !.text_content = r.text,
                      !.numeric_value = NumericValueOf(r.text[1])],
                  r.calls, << >>)
    ELSE Returned([NoResult EXCEPT
                      !.status = "success",
                      !.message = Msg("Element is visible", t, << >>, 0),
                      !.selector_used = Some(r.sel)],
                  r.calls, << >>)

\* Strategy 2 found an inner element with text elem_text
Strategy2Result(elem_text, pattern, t, calls) ==
    Returned([NoResult EXCEPT
                 !.status = "success",
                 !.message = Msg("Found in context of", t, elem_text, 0),
                 !.selector_used = Some(pattern),
                 !.text_content = Some(elem_text),
                 !.numeric_value = NumericValueOf(elem_text)],
             calls, << >>)

\* Strategy 4 found an element with text: the number is read from the text
\* as it is, the content is stripped
Strategy4Result(text, t, calls) ==
    Returned([NoResult EXCEPT
                 !.status = "success",
                 !.message = Msg("Found element containing", t, Strip(text), 0),
                 !.text_content = Some(Strip(text)),
                 !.numeric_value = NumericValueOf(text)],
             calls, << >>)

\* Strategy 5 and the final raise; calls are the calls up to the scan
VerifyLast(page, dom, t, last_error, attempts, calls) ==
    IF /\ ShotOk(page)
       /\ SearchKeywords(t) /= << >>
       /\ dom.bodyHasKw /\ dom.bodyHasFirst
    THEN Returned([NoResult EXCEPT
                      !.status = "partial",
                      !.message = Msg("Text found in page content but element not properly located. Context",
                                      t, dom.snippet, 0),
                      !.text_content = Some(dom.snippet),
                      !.screenshot = Some("verify_failed")],
                  calls \o <<Call("screenshot", "verify_failed", 0, NoVal),
                             Call("evaluate", "document.body.innerText", 0, NoVal)>>,
                  << >>)
    ELSE Raised(Msg("Verification failed after trying selectors. Last error",
                    t, <<last_error>>, attempts),
                calls \o <<Call("screenshot", "verify_failed", 0, NoVal)>>
                      \o (IF ShotOk(page)
                          THEN <<Call("evaluate", "document.body.innerText", 0, NoVal)>>
                          ELSE << >>),
                << >>)

\* The strategies after strategy 1: r is the outcome of its loop, h2 the
\* hit of strategy 2, h4 the hit of the keyword scan, calls2 the calls up
\* to the end of strategy 2
VerifyAfterLoop(page, dom, t, r, h2, h4, c, calls2, attempts) ==
    IF r.found THEN Strategy1Result(r, t)
    ELSE IF h2 /= << >>
    THEN Strategy2Result(Strip(dom.containers[h2[2]].inner[h2[3]].text),
                         ContainerPattern(h2[1], c), t, calls2)
    \* Strategy 3 reads found_elements, which nothing ever fills
    ELSE IF h4 /= 0
    THEN Strategy4Result(dom.scan[h4].text, t, Append(calls2, ScanCall))
    ELSE VerifyLast(page, dom, t, r.last_error, attempts, Append(calls2, ScanCall))

VerifyFrom(page, t, r, ctx, h2, c, attempts) ==
    VerifyAfterLoop(page, page.dom, t, r, h2,
                    IF SearchKeywords(t) = << >> THEN 0 ELSE ScanHit(page.dom),
                    c, r.calls \o Strategy2Calls(ctx, h2, c), attempts)

\* The strategies after the strict block
VerifyNonStrict(page, selectors, target, ctx, loc, calls) ==
    VerifyFrom(page, target[1],
               VerifyLoop(page, selectors, 1, ctx, "None", calls),
               ctx,
               IF ContextTruthy(ctx) THEN Strategy2Hit(page.dom, loc) ELSE << >>,
               IF ContextTruthy(ctx) THEN Render(ctx[1], " ") ELSE "",
               Len(selectors))

\* The wait for the page to settle at the start of the executor
VerifyIdle(page) ==
    IF IdleOk(page)
    THEN <<Call("wait_for_load_state", "networkidle", 5000, NoVal)>>
    ELSE <<Call("wait_for_load_state", "networkidle", 5000, NoVal),
           Call("wait_for_timeout", "", 2000, NoVal)>>

\* A verify that has no strict block
VerifyWithoutStrict(page, selectors, target, ctx, loc, idle) ==
    VerifyNonStrict(page, selectors, target, ctx, loc, idle)

VerifyWith(page, selectors, target, ctx, loc, idle) ==
    IF ContextTruthy(ctx) /\ loc /= None
    THEN VerifyStrict(page, ctx[1], loc[1], idle)
    ELSE VerifyNonStrict(page, selectors, target, ctx, loc, idle)

ExecuteVerifyAction(page, selectors0, target) ==
    IF target = None
    THEN Raised(IF selectors0 = << >> THEN AttrError ELSE TypeError,
                VerifyIdle(page), << >>)
    ELSE VerifyWith(page, SelectorsOrFallback(selectors0, target), target,
                    ContextText(target[1]), ExpectedLocation(target[1]), VerifyIdle(page))

(***************************************************************************)
(* execute_step                                                            *)
(***************************************************************************)
\* step.get(key, default) on a formatted step: the automation keys are
\* there only when the step's actual_result was parsed
StepValue(step) == IF step.has_auto THEN step.value ELSE << >>
StepSelectors(step) == IF step.has_auto THEN step.selectors ELSE << >>
StepScreenshot(step) == step.has_auto /\ step.screenshot

PlaceholderUrl ==
    <<"a", "p", "p", "l", "i", "c", "a", "t", "i", "o", "n", " ", "U", "R", "L">>

\* A guard that lets the placeholder through
OnlyEmptyUrl(url) == url = << >>

\* if not url or url == "application URL"
IsInvalidUrl(url) == url = << >> \/ url = PlaceholderUrl

StateChangingWords ==
    {"complete", "submit", "delete", "update", "save", "create", "add", "remove"}

IsStateChanging(target) ==
    \E word \in StateChangingWords : Contains(TargetLower(target), word)

\* Waits that are the same for every target
ClickStabilizationFixed(page, target) ==
    <<Call("wait_for_timeout", "", 500, NoVal),
      Call("wait_for_load_state", "networkidle", 5000, NoVal)>>
    \o (IF IdleOk(page) THEN << >>
        ELSE <<Call("wait_for_timeout", "", 1000, NoVal)>>)

\* The waits of execute_step after a click that returned
ClickStabilization(page, target) ==
    LET first == IF IsStateChanging(target) THEN 2000
                 ELSE IF IsTabClick(target) THEN 1000 ELSE 500
        additional_wait == IF IsStateChanging(target) THEN 2000 ELSE 1000
    IN  <<Call("wait_for_timeout", "", first, NoVal),
          Call("wait_for_load_state", "networkidle", 5000, NoVal)>>
        \o (IF IdleOk(page) THEN << >>
            ELSE <<Call("wait_for_timeout", "", additional_wait, NoVal)>>)

\* The click branch after execute_click_action gave r
AfterClick(r, page, target) ==
    IF r.raised THEN r
    ELSE [r EXCEPT !.calls = r.calls \o ClickStabilization(page, target)]

\* ValueError of int() on a string that is not a decimal number
ValueError(value) == Msg("invalid literal for int() with base 10", value, << >>, 0)

\* A wait branch that attempts the idle-network check after every delay
WaitBranchAlwaysIdle(page, wait_time) ==
    IF page.dead
    THEN Raised(DriverExc(page), <<Call("wait_for_timeout", "", wait_time, NoVal)>>, << >>)
    ELSE Returned([NoResult EXCEPT
                      !.status = "success",
                      !.message = Msg("Waited for ms", << >>, << >>, wait_time)],
                  <<Call("wait_for_timeout", "", wait_time, NoVal),
                    Call("wait_for_load_state", "networkidle", 3000, NoVal)>>,
                  << >>)

\* The wait branch for wait_time milliseconds
WaitBranch(page, wait_time) ==
    IF page.dead
    THEN Raised(DriverExc(page), <<Call("wait_for_timeout", "", wait_time, NoVal)>>, << >>)
    ELSE Returned([NoResult EXCEPT
                      !.status = "success",
                      !.message = Msg("Waited for ms", << >>, << >>, wait_time)],
                  IF wait_time >= 1000
                  THEN <<Call("wait_for_timeout", "", wait_time, NoVal),
                         Call("wait_for_load_state", "networkidle", 3000, NoVal)>>
                  ELSE <<Call("wait_for_timeout", "", wait_time, NoVal)>>,
                  << >>)

\* The verify branch: the wait before the executor, whose outcome is r
AfterVerifyWait(r, page) ==
    IF page.dead
    THEN Raised(DriverExc(page), <<Call("wait_for_timeout", "", 1500, NoVal)>>, << >>)
    ELSE [r EXCEPT !.calls = <<Call("wait_for_timeout", "", 1500, NoVal)>> \o r.calls]

\* A guard that lets every value through
NeverMissing(value) == FALSE

\* if not value, in the fill branch
FillValueMissing(value) == value = << >>

\* The body of the try block: the branch of the action
StepBody(page, action, target, value, selectors) ==
    IF action = "navigate" THEN
        IF IsInvalidUrl(value)
        THEN Raised(Msg("Invalid URL. Expected actual URL value", value, << >>, 0),
                    << >>, << >>)
        ELSE IF ~GotoOk(page)
        THEN Raised(DriverExc(page), <<Call("goto", "", 20000, value)>>,
                    <<Msg("Navigating to", value, << >>, 0)>>)
        ELSE Returned([NoResult EXCEPT
                          !.status = "success",
                          !.message = Msg("Successfully navigated to", value, << >>, 0)],
                      <<Call("goto", "", 20000, value),
                        Call("wait_for_timeout", "", 500, NoVal)>>,
                      <<Msg("Navigating to", value, << >>, 0)>>)
    ELSE IF action = "fill" THEN
        IF FillValueMissing(value)
        THEN Raised(Msg("No value provided for fill action on", TargetText(target), << >>, 0),
                    << >>, << >>)
        ELSE ExecuteFillAction(page, selectors, value, target)
    ELSE IF action = "click" THEN
        AfterClick(ExecuteClickAction(page, selectors, target), page, target)
    ELSE IF action = "wait" THEN
        IF IsDigitStr(value) /\ ~IsDecimalStr(value)
        THEN Raised(ValueError(value), << >>, << >>)   \* int(value)
        ELSE WaitBranch(page, IF IsDigitStr(value) THEN IntOf(value) ELSE 2000)
    ELSE IF action = "verify" THEN
        AfterVerifyWait(ExecuteVerifyAction(page, selectors, target), page)
    ELSE IF action = "screenshot" THEN
        IF ~ShotOk(page)
        THEN Raised(DriverExc(page), <<Call("screenshot", "step", 0, NoVal)>>, << >>)
        ELSE Returned([NoResult EXCEPT
                          !.status = "success",
                          !.message = Msg("Screenshot captured", << >>, << >>, 0),
                          !.screenshot = Some("step")],
                      <<Call("screenshot", "step", 0, NoVal)>>, << >>)
    ELSE Raised(Msg("Unknown action", <<action>>, << >>, 0), << >>, << >>)

\* An except block that lets the failure of the error screenshot leave
\* execute_step
FailedResultEscalating(exc, calls, log) ==
    Raised(Msg("E_screenshot", << >>, << >>, 0), calls \o TryScreenshot("error_step"), log)

\* The except block: the error screenshot is attempted and its failure
\* swallowed; the result carries the text of the exception
FailedResult(exc, calls, log) ==
    Returned([NoResult EXCEPT
                 !.status = "failed",
                 !.message = exc,
                 !.screenshot = Some("error_step"),
                 !.error = Some(exc)],
             calls \o TryScreenshot("error_step"),
             Append(log, Msg("FAILED: " \o exc.tag, exc.a, exc.b, exc.n)))

\* "password" in target.lower() or "password" in description.lower(), for a
\* target that is a string
IsSensitive(target, description) ==
    Contains(TargetLower(target), "password") \/ Contains(Lower(description), "password")

\* value, as the log shows it
DisplayValue(value, target, description) ==
    IF value /= << >> /\ IsSensitive(target, description) THEN MaskOf(value) ELSE value

\* The lines printed before the try block
StepHead(action, target, description, step_number, display_value) ==
    <<Msg("Step", <<action>>, description, step_number),
      Msg("Target", TargetText(target), << >>, 0)>>
    \o (IF display_value /= << >> /\ action = "fill"
        THEN <<Msg("Value", display_value, << >>, 0)>> ELSE << >>)

\* The end of the try block after the branch returned result: the success
\* screenshot when the step asks for one (shot), which may raise
StepSuccess(page, result, calls, log, shot) ==
    IF shot /\ ~ShotOk(page)
    THEN FailedResult(DriverExc(page),
                      Append(calls, Call("screenshot", "success", 0, NoVal)), log)
    ELSE Returned(IF shot THEN [result EXCEPT !.screenshot = Some("success")] ELSE result,
                  IF shot THEN Append(calls, Call("screenshot", "success", 0, NoVal))
                  ELSE calls,
                  Append(log, Msg("SUCCESS: " \o result.message.tag, result.message.a,
                                  result.message.b, result.message.n)))

\* try/except around the branch, whose outcome is body
StepTry(page, body, head, shot) ==
    IF body.raised
    THEN FailedResult(body.exc, body.calls, head \o body.log)
    ELSE StepSuccess(page, body.result, body.calls, head \o body.log, shot)

StepWith(page, step, action, target, value, description) ==
    IF value /= << >> /\ target = None
    THEN Raised(AttrError, << >>,
                <<Msg("Step", <<action>>, description, step.step_number)>>)
    ELSE StepTry(page,
                 StepBody(page, action, target, value, StepSelectors(step)),
                 StepHead(action, target, description, step.step_number,
                          DisplayValue(value, target, description)),
                 StepScreenshot(step) /\ action /= "screenshot")

\* execute_step(page, step, step_number).  raised says that an exception
\* left execute_step itself (it was raised before the try block).
ExecuteStep(page, step) ==
    StepWith(page, step, LowerWord(step.action), step.target, StepValue(step),
             step.description)

(***************************************************************************)
(* The planner's step conversion (create_reproduction_plan)                *)
(***************************************************************************)
\* json.dumps of the automation data and json.loads of the stored text
JsonDumps(obj) == [kind |-> "json", obj |-> obj]
JsonLoads(text) == text.obj

\* ReproductionStep(...)
ReproductionStep(step_number, description, action, target, expected_result, status, actual_result, error) ==
    [step_number |-> step_number, description |-> description, action |-> action,
     target |-> target, expected_result |-> expected_result, status |-> status,
     actual_result |-> actual_result, error |-> error]

\* One pass of the loop over parsed_plan["reproduction_steps"]: the step
\* built from step_data, n steps being built already
PlannerStep(step_data, n) ==
    LET step == ReproductionStep(
                    IF step_data.step_number = None THEN n + 1
                    ELSE step_data.step_number[1],
                    step_data.description, step_data.action, step_data.target,
                    step_data.expected_result, "pending", None, None)
    IN  [step EXCEPT !.actual_result =
            Some(JsonDumps([selectors |-> step_data.selectors,
                            value |-> step_data.value,
                            screenshot |-> step_data.screenshot]))]

\* The lines "Log important steps" prints for one step: the first 20
\* characters of a fill step's value, as they are
PlannerLogLines(step, step_data) ==
    IF step.action = "fill"
    THEN <<Msg("Fill with", TargetText(step.target), Prefix(step_data.value, 20),
               step.step_number)>>
    ELSE IF step.action = "click"
    THEN <<Msg("Click", TargetText(step.target), << >>, step.step_number)>>
    ELSE << >>

\* The whole loop: the steps built and the lines printed, until a step_data
\* without an action raises
RECURSIVE PlannerLoop(_, _, _)
PlannerLoop(data, repro_steps, log) ==
    IF data = << >> THEN [ok |-> repro_steps /= << >>, steps |-> repro_steps, log |-> log]
    ELSE IF Head(data).action = ""
    THEN [ok |-> FALSE, steps |-> repro_steps, log |-> log]
    ELSE LET step == PlannerStep(Head(data), Len(repro_steps))
         IN  PlannerLoop(Tail(data), Append(repro_steps, step),
                         log \o PlannerLogLines(step, Head(data)))

(***************************************************************************)
(* ExecutionNode.execute_steps_with_browser: the conversion to dicts       *)
(***************************************************************************)
\* step_dict of one step; the stored automation data is parsed back
FormatStep(step) ==
    LET parsed == step.actual_result /= None
        automation_data == JsonLoads(step.actual_result[1])
    IN  [step_number |-> step.step_number, action |-> step.action,
         target |-> step.target, description |-> step.description,
         expected_result |-> step.expected_result,
         has_auto |-> parsed,
         selectors |-> IF parsed THEN automation_data.selectors ELSE << >>,
         value |-> IF parsed THEN automation_data.value ELSE << >>,
         screenshot |-> IF parsed THEN automation_data.screenshot ELSE FALSE]

\* The lines the conversion prints for one step: the value, masked when the
\* target names a password
ConvertLogLines(step) ==
    LET d == FormatStep(step)
        display_value == IF step.target /= None
                            /\ Contains(TargetLower(step.target), "password")
                         THEN MaskOf(d.value) ELSE d.value
    IN  IF ~d.has_auto THEN << >>
        ELSE <<Msg("Step", <<step.action>>, step.description, step.step_number)>>
             \o (IF d.value /= << >>
                 THEN <<Msg("Value", display_value, << >>, 0)>> ELSE << >>)
             \o <<Msg("Selectors available", << >>, << >>, Len(d.selectors))>>

RECURSIVE ConvertLogAll(_)
ConvertLogAll(ss) ==
    IF ss = << >> THEN << >> ELSE ConvertLogLines(Head(ss)) \o ConvertLogAll(Tail(ss))

\* A failed copy that keeps the error the step came with
FailedCopyOwnError(step, e) ==
    [step_number |-> step.step_number, description |-> step.description,
     action |-> step.action, target |-> step.target,
     expected_result |-> step.expected_result, status |-> "failed",
     actual_result |-> Some(Msg("Failed due to automation error", << >>, << >>, 0)),
     error |-> step.error]

\* The except block: every input step marked failed with one shared error
FailedCopy(step, e) ==
    ReproductionStep(step.step_number, step.description, step.action, step.target,
                     step.expected_result, "failed",
                     Some(Msg("Failed due to automation error", << >>, << >>, 0)),
                     Some(Msg("Browser automation error: " \o e.tag, e.a, e.b, e.n)))

AllFailed(ss, e) == [i \in 1..Len(ss) |-> FailedCopy(ss[i], e)]

(***************************************************************************)
(* run_browser_automation: one pass of the loop over the steps             *)
(***************************************************************************)
\* A record that is numbered 1 whatever the step
StepRecordFirst(step_dict, out) ==
    [step_number |-> 1, description |-> step_dict.description,
     action |-> step_dict.action, target |-> step_dict.target,
     expected_result |-> step_dict.expected_result,
     status |-> IF out.raised THEN "failed" ELSE out.result.status,
     actual_result |-> None, error |-> None]

\* The record appended to results for step_dict, given what execute_step did
StepRecord(step_dict, out) ==
    LET step_number == step_dict.step_number
    IN  IF ~out.raised
        THEN ReproductionStep(step_number, step_dict.description, step_dict.action,
                              step_dict.target, step_dict.expected_result,
                              out.result.status, Some(out.result.message),
                              out.result.error)
        ELSE ReproductionStep(step_number, step_dict.description, step_dict.action,
                              step_dict.target, step_dict.expected_result,
                              "failed", Some(Msg("Step execution failed", << >>, << >>, 0)),
                              Some(out.exc))

\* A loop that stops after a navigate step that failed
LoopUntilFailedNavigate(res, fmt) ==
    /\ Len(res) < Len(fmt)
    /\ \A i \in 1..Len(res) :
          ~(LowerWord(res[i].action) = "navigate" /\ res[i].status = "failed")

\* A loop that stops after any step that failed
LoopUntilFailedStep(res, fmt) ==
    /\ Len(res) < Len(fmt)
    /\ \A i \in 1..Len(res) : res[i].status /= "failed"

\* for step_dict in steps: the loop goes on while a step is left
LoopContinues(res, fmt) == Len(res) < Len(fmt)

(***************************************************************************)
(* Inputs: step data of the planner and pages of the browser               *)
(***************************************************************************)
MaxSteps == 2      \* longest plan that is run step after step
MaxAnchors == 2    \* most elements holding the anchor text on a page

Url == <<"h", "t", "t", "p", ":", "/", "/", "x">>

SD(n, action, target, value, selectors, screenshot, description) ==
    [step_number |-> n, action |-> action, target |-> target, value |-> value,
     selectors |-> selectors, screenshot |-> screenshot,
     description |-> description, expected_result |-> None]

TApp == <<"application">>
TEmail == <<"Email", "field">>
TPassword == <<"Password", "field">>
TSecret == <<"secret", "field">>
TLogin == <<"Login", "button">>
TTab == <<"Completed", "tab">>
TStrict == <<"'", "Jar", "'", "in", "the", "Completed", "tab">>
TAnchor == <<"'", "Jar", "'", "count">>
TLocation == <<"count", "in", "the", "Completed", "tab">>
TPlain == <<"total", "count">>
TUserPass == <<"Password", "for", "username">>
TClickTab == <<"Click", "on", "the", "Completed", "tab">>
TLoginLink == <<"Login", "link">>
TEmpty == << >>
TSettingsTab == <<"settings", "tab">>
TSubmit == <<"submit", "button">>

\* Values typed into fields: two of the same length, differing in every
\* character
ValueA == <<"a", "1">>
ValueB == <<"b", "2">>

\* Element texts: one number, none, two numbers between blanks, blanks only
Text7 == <<"T", ":", " ", "7", " ", "i">>
TextNo == <<"N", "o">>
TextTwo == <<" ", "0", "7", " ", "a", "1", "2", " ">>
TextBlank == <<" ">>
Texts == {Text7, TextNo, TextTwo, TextBlank, << >>}

EmptyDom ==
    [anchors |-> << >>, tabActive |-> 0, text |-> << >>, containers |-> << >>,
     scan |-> << >>, bodyHasKw |-> FALSE, bodyHasFirst |-> FALSE, snippet |-> << >>]

\* A page on which nothing matches and every other call succeeds
QuietPage ==
    [dead |-> FALSE, gotoOk |-> TRUE, shotOk |-> TRUE, idleOk |-> TRUE,
     err |-> "E_short", probe |-> << >>, dom |-> EmptyDom]

\* The session is gone
DeadPage == [QuietPage EXCEPT !.dead = TRUE, !.err = "E_long"]

\* The screenshots fail, everything else is as on the quiet page
NoShotPage == [QuietPage EXCEPT !.shotOk = FALSE]

\* The selectors a page of the model can answer for: the step's own
\* selectors, or the first two and the last of the generated ones
ProbeDomain(d) ==
    IF d.selectors /= << >> THEN Range(d.selectors)
    ELSE IF d.target = None THEN {}
    ELSE {GenerateFallbackSelectors(d.target[1])[1],
          GenerateFallbackSelectors(d.target[1])[2],
          GenerateFallbackSelectors(d.target[1])[Len(GenerateFallbackSelectors(d.target[1]))]}

ProbePages(base, d, outcomes) ==
    { [base EXCEPT !.probe = f] : f \in [ProbeDomain(d) -> outcomes] }

FillOutcomes == {"timeout", "fill_err", "mismatch", "ok"}
ClickOutcomes == {"timeout", "empty", "hidden", "click_err", "ok", "ok_many"}
VerifyOutcomes == {"timeout", "hidden", "notext", "text", "text_noctx"}

\* Elements that hold the anchor text
Anchor(underActive, underPanel, h5, direct, visible, closest, text) ==
    [underActive |-> underActive, underPanel |-> underPanel, h5 |-> h5,
     direct |-> direct, visible |-> visible, closest |-> closest, text |-> text]

AnchorKinds ==
    { Anchor(TRUE, FALSE, TRUE, TRUE, TRUE, "active", TextTwo),     \* in the active pane
      Anchor(FALSE, FALSE, TRUE, TRUE, FALSE, "inactive", Text7),   \* hidden pane
      Anchor(FALSE, TRUE, FALSE, FALSE, TRUE, "inactive", Text7),   \* shown, pane not active
      Anchor(TRUE, FALSE, TRUE, TRUE, TRUE, "inactive", Text7),     \* pane nested in the active one
      Anchor(FALSE, TRUE, FALSE, TRUE, TRUE, "none", TextNo),       \* tabpanel without tab-pane
      Anchor(FALSE, FALSE, TRUE, TRUE, TRUE, "none", Text7) }       \* outside every pane

RECURSIVE SeqsUpTo(_, _)
SeqsUpTo(S, n) ==
    IF n = 0 THEN {<< >>}
    ELSE SeqsUpTo(S, n - 1) \cup { Append(q, x) : q \in SeqsUpTo(S, n - 1), x \in S }

\* Containers of strategy 2 and elements of the keyword scan
Inner(visible, text) == [visible |-> visible, text |-> text]

Container(tmpl, visible, locNear, inner) ==
    [tmpl |-> tmpl, visible |-> visible, locNear |-> locNear, inner |-> inner]

ContainerLists ==
    { << >>,
      <<Container(1, TRUE, TRUE, <<Inner(FALSE, Text7), Inner(TRUE, TextTwo)>>)>>,
      <<Container(3, TRUE, FALSE, <<Inner(TRUE, TextNo)>>),
        Container(2, TRUE, FALSE, <<Inner(TRUE, Text7)>>)>>,
      <<Container(6, FALSE, TRUE, <<Inner(TRUE, Text7)>>),
        Container(7, TRUE, TRUE, <<Inner(TRUE, << >>), Inner(TRUE, TextBlank)>>)>> }

Scanned(visible, text, hasKw) == [visible |-> visible, text |-> text, hasKw |-> hasKw]

ScanLists ==
    { << >>,
      <<Scanned(TRUE, TextNo, FALSE), Scanned(TRUE, TextTwo, TRUE)>>,
      <<Scanned(FALSE, Text7, TRUE), Scanned(TRUE, TextNo, TRUE)>> }

Doms ==
    { [EmptyDom EXCEPT !.containers = cs, !.scan = sc, !.bodyHasKw = b[1],
                       !.bodyHasFirst = b[2], !.snippet = TextTwo] :
        cs \in ContainerLists, sc \in ScanLists,
        b \in {<<FALSE, FALSE>>, <<TRUE, FALSE>>, <<TRUE, TRUE>>} }

\* Whether a verify step goes through the strict block
IsStrictTarget(target) ==
    /\ target /= None
    /\ ContextTruthy(ContextText(target[1]))
    /\ ExpectedLocation(target[1]) /= None

\* Pages of a plan that is run step after step: the outcomes that decide
\* how the run goes
RunPages(d) ==
    {QuietPage, DeadPage}
    \cup (IF LowerWord(d.action) = "navigate"
          THEN {[QuietPage EXCEPT !.gotoOk = FALSE]} ELSE {})
    \cup (IF LowerWord(d.action) \in {"click", "fill"}
          THEN ProbePages(QuietPage, d, {"timeout", "ok"}) ELSE {})

\* Pages of a plan of one step: what the executor of the step can meet
StepPages(d) ==
    {QuietPage, DeadPage, NoShotPage}
    \cup (IF LowerWord(d.action) = "navigate"
          THEN {[QuietPage EXCEPT !.gotoOk = FALSE],
                [NoShotPage EXCEPT !.gotoOk = FALSE]}
          ELSE {})
    \cup (IF LowerWord(d.action) = "fill"
          THEN ProbePages(QuietPage, d, FillOutcomes)
               \cup ProbePages(NoShotPage, d, {"timeout", "fill_err"})
          ELSE {})
    \cup (IF LowerWord(d.action) = "click"
          THEN ProbePages(QuietPage, d,
                          IF d.selectors = << >> THEN {"timeout", "hidden", "ok"}
                          ELSE ClickOutcomes)
               \cup ProbePages([QuietPage EXCEPT !.idleOk = FALSE], d, {"timeout", "ok"})
               \cup ProbePages(NoShotPage, d, {"timeout", "ok"})
          ELSE {})
    \cup (IF LowerWord(d.action) = "wait"
          THEN {[QuietPage EXCEPT !.idleOk = FALSE]} ELSE {})
    \cup (IF LowerWord(d.action) = "verify" /\ IsStrictTarget(d.target)
          THEN { [pg EXCEPT !.dom.anchors = a, !.dom.tabActive = ta] :
                   pg \in {QuietPage, NoShotPage, [QuietPage EXCEPT !.idleOk = FALSE]},
                   a \in SeqsUpTo(AnchorKinds, MaxAnchors), ta \in {0, 2} }
          ELSE {})
    \cup (IF LowerWord(d.action) = "verify" /\ ~IsStrictTarget(d.target)
          THEN UNION { ProbePages([QuietPage EXCEPT !.dom.text = t], d, VerifyOutcomes) :
                         t \in Texts }
               \cup { [pg EXCEPT !.dom = dom] : pg \in {QuietPage, NoShotPage}, dom \in Doms }
          ELSE {})

\* Step data of the plans that are run step after step
RunPool ==
    { SD(None, "navigate", Some(TApp), Url, << >>, FALSE, << >>),
      SD(None, "navigate", None, << >>, << >>, FALSE, << >>),
      SD(Some(7), "click", Some(TLogin), << >>, <<"s1">>, TRUE, << >>),
      SD(None, "fill", Some(TPassword), ValueA, <<"s1">>, FALSE, << >>),
      SD(None, "fill", None, ValueA, <<"s1">>, FALSE, << >>),
      SD(None, "wait", Some(TPlain), << >>, << >>, FALSE, << >>),
      SD(None, "verify", Some(TPlain), << >>, <<"s1">>, FALSE, << >>),
      SD(None, "screenshot", Some(TPlain), << >>, << >>, FALSE, << >>),
      SD(None, "hover", Some(TPlain), << >>, << >>, FALSE, << >>),
      SD(None, "", Some(TPlain), << >>, << >>, FALSE, << >>) }

\* Step data of the plans of one step
StepPool ==
    { SD(None, "navigate", tg, v, << >>, sh, << >>) :
        tg \in {None, Some(TApp)}, v \in {<< >>, PlaceholderUrl, Url}, sh \in BOOLEAN }
    \cup { SD(None, a, Some(tg), v, sel, FALSE, dsc) :
             a \in {"fill", "FILL"}, tg \in {TEmail, TPassword, TSecret},
             v \in {<< >>, ValueA, ValueB},
             sel \in {<< >>, <<"s1", "s2", "s1">>},
             dsc \in {<< >>, <<"Enter", "the", "Password">>} }
    \cup { SD(None, "click", Some(tg), << >>, sel, sh, << >>) :
             tg \in {TLogin, TTab, TStrict}, sel \in {<< >>, <<"s1", "s2", "s1">>},
             sh \in BOOLEAN }
    \cup { SD(None, "verify", tg, << >>, sel, sh, << >>) :
             tg \in {None, Some(TStrict), Some(TAnchor), Some(TLocation), Some(TPlain),
                    Some(TApp)},
             sel \in {<< >>, <<"s1", "s2">>}, sh \in BOOLEAN }
    \cup { SD(None, "wait", Some(TPlain), v, << >>, FALSE, << >>) :
             v \in {<< >>, <<"5", "0", "0">>, <<"1", "5", "0", "0">>, ValueA,
                    <<SuperTwo>>} }
    \cup { SD(None, a, Some(TPlain), << >>, << >>, sh, << >>) :
             a \in {"screenshot", "hover"}, sh \in BOOLEAN }
    \cup { SD(None, "fill", Some(TUserPass), ValueA, << >>, FALSE, << >>),
            SD(None, "click", Some(TClickTab), << >>, << >>, FALSE, << >>),
            SD(None, "click", Some(TLoginLink), << >>, << >>, FALSE, << >>),
            SD(None, "verify", Some(TEmpty), << >>, << >>, FALSE, << >>),
            SD(None, "click", Some(TSettingsTab), << >>, <<"s1">>, FALSE, << >>),
            SD(None, "click", Some(TSubmit), << >>, <<"s1">>, FALSE, << >>) }
    \cup { SD(None, "press", tg, <<"E", "n", "t", "e", "r">>, << >>, FALSE, << >>) :
             tg \in {None, Some(TPlain)} }

Plans == SeqsUpTo(RunPool, MaxSteps) \cup { <<d>> : d \in StepPool }

\* The pages the n-th step of the plan can meet
PagesFor(data, n) ==
    IF Len(data) = 1 THEN RunPages(data[n]) \cup StepPages(data[n])
    ELSE RunPages(data[n])

(***************************************************************************)
(* The workflow of the agent: the graph and its nodes                      *)
(***************************************************************************)
\* The most steps an issue or a plan of the workflow holds
WfMaxSteps == 2

\* reproduce_bug: the state the graph starts from
InitialState ==
    [raw_jira_data |-> None, parsed_issue |-> None, reproduction_plan |-> None,
     current_step |-> 0, reproduction_result |-> None, messages |-> << >>,
     errors |-> << >>, status |-> "initializing", next_action |-> None]

\* What a node gives back: the state it returns and the values it assigned
\* to status, in order
NodeResult(st, set) == [state |-> st, set |-> set]

\* JiraParserNode.__call__.  fetched is the raw issue, None when the fetch
\* raises; parsed is the parsed issue, None when the parsing raises
JiraParserCall(st, fetched, parsed) ==
    IF fetched = None
    THEN NodeResult([st EXCEPT
                        !.status = "failed",
                        !.errors = Append(@, "Error in JIRA parser"),
                        !.messages = @ \o <<"Fetching JIRA issue", "Error in JIRA parser">>,
                        !.next_action = Some("abort")],
                    <<"fetching", "failed">>)
    ELSE IF parsed = None
    THEN NodeResult([st EXCEPT
                        !.raw_jira_data = fetched,
                        !.status = "failed",
                        !.errors = Append(@, "Error in JIRA parser"),
                        !.messages = @ \o <<"Fetching JIRA issue", "Successfully fetched",
                                            "Parsing issue", "Error in JIRA parser">>,
                        !.next_action = Some("abort")],
                    <<"fetching", "parsing", "failed">>)
    ELSE IF parsed[1].url = None
    THEN NodeResult([st EXCEPT
                        !.raw_jira_data = fetched,
                        !.parsed_issue = parsed,
                        !.status = "parsing",
                        !.errors = Append(@, "Application URL is required but not found"),
                        !.messages = @ \o <<"Fetching JIRA issue", "Successfully fetched",
                                            "Parsing issue", "Parsed steps",
                                            "WARNING: No application URL found">>,
                        !.next_action = Some("abort")],
                    <<"fetching", "parsing">>)
    ELSE NodeResult([st EXCEPT
                        !.raw_jira_data = fetched,
                        !.parsed_issue = parsed,
                        !.status = "parsed",
                        !.messages = @ \o <<"Fetching JIRA issue", "Successfully fetched",
                                            "Parsing issue", "Parsed steps",
                                            "Application URL">>,
                        !.next_action = Some("plan_reproduction")],
                    <<"fetching", "parsing", "parsed">>)

\* A planner whose except block goes on to the end of the try block
PlannerCallGoesOn(st, plan) ==
    IF st.parsed_issue = None
    THEN NodeResult([st EXCEPT
                        !.status = "planned",
                        !.errors = Append(@, "Error in reproduction planner"),
                        !.messages = Append(@, "Error in reproduction planner"),
                        !.next_action = Some("abort")],
                    <<"failed", "planned">>)
    ELSE IF plan = None
    THEN NodeResult([st EXCEPT
                        !.status = "planned",
                        !.errors = Append(@, "Error in reproduction planner"),
                        !.messages = @ \o <<"Creating detailed reproduction plan",
                                            "Error in reproduction planner">>,
                        !.next_action = Some("abort")],
                    <<"planning", "failed", "planned">>)
    ELSE NodeResult([st EXCEPT
                        !.reproduction_plan = plan,
                        !.current_step = 0,
                        !.status = "planned",
                        !.messages = @ \o <<"Creating detailed reproduction plan">>
                                       \o (IF plan[1].warnings
                                           THEN <<"Plan validation warnings">> ELSE << >>)
                                       \o <<"Created reproduction plan">>,
                        !.next_action = Some("execute_reproduction")],
                    <<"planning", "planned">>)

\* ReproductionPlannerNode.__call__.  plan is the plan of
\* create_reproduction_plan, None when it raises
PlannerCall(st, plan) ==
    IF st.parsed_issue = None
    THEN NodeResult([st EXCEPT
                        !.status = "failed",
                        !.errors = Append(@, "Error in reproduction planner"),
                        !.messages = Append(@, "Error in reproduction planner"),
                        !.next_action = Some("abort")],
                    <<"failed">>)
    ELSE IF plan = None
    THEN NodeResult([st EXCEPT
                        !.status = "failed",
                        !.errors = Append(@, "Error in reproduction planner"),
                        !.messages = @ \o <<"Creating detailed reproduction plan",
                                            "Error in reproduction planner">>,
                        !.next_action = Some("abort")],
                    <<"planning", "failed">>)
    ELSE NodeResult([st EXCEPT
                        !.reproduction_plan = plan,
                        !.current_step = 0,
                        !.status = "planned",
                        !.messages = @ \o <<"Creating detailed reproduction plan">>
                                       \o (IF plan[1].warnings
                                           THEN <<"Plan validation warnings">> ELSE << >>)
                                       \o <<"Created reproduction plan">>,
                        !.next_action = Some("execute_reproduction")],
                    <<"planning", "planned">>)

\* ExecutionNode.__call__.  ran holds the statuses of the executed steps and
\* broken, the place of the simulated step whose actual_result came back
\* null (0 when there is none): its [:80] raises.  reproduced is the verdict
\* of analyze_reproduction_results, which falls back to a result of its own
\* when the analysis fails and so always returns one
ExecutionCall(st, real, ran, reproduced) ==
    IF st.reproduction_plan = None
    THEN NodeResult([st EXCEPT
                        !.status = "failed",
                        !.errors = Append(@, "Error in execution node"),
                        !.messages = Append(@, "Error in execution node"),
                        !.next_action = Some("abort")],
                    <<"failed">>)
    ELSE IF ~real /\ ran.broken > 0
    THEN NodeResult([st EXCEPT
                        !.current_step = ran.broken - 1,
                        !.status = "failed",
                        !.errors = Append(@, "Error in execution node"),
                        !.messages = @ \o <<"Executing reproduction plan",
                                            "Error in execution node">>,
                        !.next_action = Some("abort")],
                    <<"executing", "failed">>)
    ELSE NodeResult([st EXCEPT
                        !.current_step = Len(ran.statuses),
                        !.reproduction_result =
                            Some([bug_reproduced |-> reproduced,
                                  executed_steps |-> ran.statuses]),
                        !.status = "completed",
                        !.messages = @ \o <<"Executing reproduction plan",
                                            "Analyzing reproduction results",
                                            "REPRODUCTION RESULT">>,
                        !.next_action = Some("report")],
                    <<"executing", "analyzing", "completed">>)

\* BugReproductionAgent._generate_report.  post is what AUTO_POST_TO_JIRA
\* and the JIRA client give: "off", "posted" or "post_failed"
GenerateReport(st, post) ==
    IF st.reproduction_result = None
    THEN NodeResult([st EXCEPT
                        !.status = "failed",
                        !.messages = Append(@, "Error generating report")],
                    <<"failed">>)
    ELSE NodeResult([st EXCEPT
                        !.status = "completed",
                        !.messages = @ \o <<"FINAL REPRODUCTION REPORT">>
                                       \o (IF post = "posted"
                                           THEN <<"Report posted to JIRA as comment">>
                                           ELSE IF post = "post_failed"
                                           THEN <<"Failed to post to JIRA">>
                                           ELSE << >>)],
                    <<"completed">>)

\* Edges that lead on to the next node whatever next_action is
RouteStraightOn(n, st) ==
    IF n = "fetch_and_parse" THEN "create_plan"
    ELSE IF n = "create_plan" THEN "execute"
    ELSE IF n = "execute" THEN "report"
    ELSE "END"

\* The edges of _build_workflow with _route_after_parse, _route_after_plan
\* and _route_after_execute: the node that follows n in state st
Route(n, st) ==
    IF n = "fetch_and_parse"
    THEN IF st.next_action = Some("plan_reproduction") THEN "create_plan" ELSE "END"
    ELSE IF n = "create_plan"
    THEN IF st.next_action = Some("execute_reproduction") THEN "execute" ELSE "END"
    ELSE IF n = "execute"
    THEN IF st.next_action = Some("report") THEN "report" ELSE "END"
    ELSE "END"

\* The parsed issues: with or without the URL of the application
Issues == [url : {None, Some("url")}, steps : 0..WfMaxSteps]

\* The plans of the planner
WfPlans == [steps : 0..WfMaxSteps, warnings : BOOLEAN]

\* What the execution of a plan of n steps can give
Runs(n, real) ==
    [statuses : [1..n -> {"success", "failed"}],
     broken : IF real THEN {0} ELSE 0..n]

\* Node n ran and gave r: the state is replaced and the edge is followed
Visit(n, r) ==
    /\ state' = r.state
    /\ node' = Route(n, r.state)
    /\ visits' = Append(visits, [node |-> n, before |-> state, after |-> r.state,
                                 set |-> r.set])
    /\ UNCHANGED use_real_browser
    /\ UNCHANGED runVars

WfInit ==
    /\ stepData = << >>
    /\ steps = << >>
    /\ formatted = << >>
    /\ results = << >>
    /\ executed = << >>
    /\ pc = "workflow"
    /\ runExc = None
    /\ trace = << >>
    /\ plannerLog = << >>
    /\ convertLog = << >>
    /\ browserOpen = FALSE
    /\ state = InitialState
    /\ node = "fetch_and_parse"
    /\ visits = << >>
    /\ use_real_browser \in BOOLEAN

FetchAndParseNode ==
    /\ node = "fetch_and_parse"
    /\ \E fetched \in {None, Some("raw")}, parsed \in {None} \cup {Some(i) : i \in Issues} :
          Visit("fetch_and_parse", JiraParserCall(state, fetched, parsed))

CreatePlanNode ==
    /\ node = "create_plan"
    /\ \E plan \in {None} \cup {Some(p) : p \in WfPlans} :
          Visit("create_plan", PlannerCall(state, plan))

ExecuteNode ==
    /\ node = "execute"
    /\ \E ran \in Runs(IF state.reproduction_plan = None THEN 0
                       ELSE state.reproduction_plan[1].steps, use_real_browser),
          reproduced \in BOOLEAN :
          Visit("execute", ExecutionCall(state, use_real_browser, ran, reproduced))

ReportNode ==
    /\ node = "report"
    /\ \E post \in {"off", "posted", "post_failed"} :
          Visit("report", GenerateReport(state, post))

WfNext ==
    \/ FetchAndParseNode
    \/ CreatePlanNode
    \/ ExecuteNode
    \/ ReportNode

\* The graph, run as app.invoke runs it
Workflow == WfInit /\ [][WfNext]_vars

\* app.invoke runs the node that is next until the graph reaches END
WorkflowLive == WfInit /\ [][WfNext]_vars /\ WF_vars(WfNext)

(***************************************************************************)
(* The state machine                                                       *)
(***************************************************************************)
InitWith(data) ==
    /\ stepData = data
    /\ steps = << >>
    /\ formatted = << >>
    /\ results = << >>
    /\ executed = << >>
    /\ pc = "plan"
    /\ runExc = None
    /\ trace = << >>
    /\ plannerLog = << >>
    /\ convertLog = << >>
    /\ browserOpen = FALSE
    /\ state = InitialState
    /\ node = "fetch_and_parse"
    /\ visits = << >>
    /\ use_real_browser = TRUE

Init == \E data \in Plans : InitWith(data)

\* create_reproduction_plan: the steps are built, or the plan is refused
CreatePlan ==
    /\ pc = "plan"
    /\ plannerLog' = PlannerLoop(stepData, << >>, << >>).log
    /\ steps' = IF PlannerLoop(stepData, << >>, << >>).ok
                THEN PlannerLoop(stepData, << >>, << >>).steps ELSE << >>
    /\ pc' = IF PlannerLoop(stepData, << >>, << >>).ok THEN "convert" ELSE "refused"
    /\ UNCHANGED wfVars
    /\ UNCHANGED <<stepData, formatted, results, executed, runExc, trace,
                   convertLog, browserOpen>>

\* execute_steps_with_browser, up to the call of run_browser_automation
ConvertSteps ==
    /\ pc = "convert"
    /\ formatted' = [i \in 1..Len(steps) |-> FormatStep(steps[i])]
    /\ convertLog' = ConvertLogAll(steps)
    /\ pc' = "launch"
    /\ UNCHANGED wfVars
    /\ UNCHANGED <<stepData, steps, results, executed, runExc, trace, plannerLog,
                   browserOpen>>

\* run_browser_automation up to the loop: the browser is launched, or the
\* launch raises and execute_steps_with_browser marks every step failed
LaunchBrowser ==
    /\ pc = "launch"
    /\ \E ok \in BOOLEAN :
          IF ok
          THEN /\ browserOpen' = TRUE
               /\ pc' = "loop"
               /\ UNCHANGED <<executed, runExc>>
          ELSE /\ runExc' = Some(Msg("E_launch", << >>, << >>, 0))
               /\ executed' = AllFailed(steps, Msg("E_launch", << >>, << >>, 0))
               /\ pc' = "done"
               /\ UNCHANGED browserOpen
    /\ UNCHANGED wfVars
    /\ UNCHANGED <<stepData, steps, formatted, results, trace, plannerLog, convertLog>>

\* What one pass of the loop leaves behind: the step, the page it met, the
\* outcome of execute_step (out) and of the branch inside its try block
\* (body; the branch is not reached when execute_step raised before it)
Pass(step_dict, page, out) ==
    [step |-> step_dict, page |-> page, out |-> out,
     body |-> IF out.raised THEN out
              ELSE StepBody(page, LowerWord(step_dict.action), step_dict.target,
                            StepValue(step_dict), StepSelectors(step_dict))]

\* One pass of the loop "for step_dict in steps"
RunStep ==
    /\ pc = "loop"
    /\ LoopContinues(results, formatted)
    /\ \E page \in PagesFor(stepData, Len(results) + 1) :
          \E out \in {ExecuteStep(page, formatted[Len(results) + 1])} :
             /\ results' = Append(results, StepRecord(formatted[Len(results) + 1], out))
             /\ trace' = Append(trace, Pass(formatted[Len(results) + 1], page, out))
    /\ UNCHANGED wfVars
    /\ UNCHANGED <<stepData, steps, formatted, executed, pc, runExc, plannerLog,
                   convertLog, browserOpen>>

\* An except block that marks the input steps themselves as failed
CloseBrowserMarkingInput ==
    /\ pc = "loop"
    /\ ~LoopContinues(results, formatted)
    /\ browserOpen' = FALSE
    /\ pc' = "done"
    /\ \E ok \in BOOLEAN :
          IF ok
          THEN /\ executed' = results
               /\ UNCHANGED <<runExc, steps>>
          ELSE /\ runExc' = Some(Msg("E_close", << >>, << >>, 0))
               /\ steps' = AllFailed(steps, Msg("E_close", << >>, << >>, 0))
               /\ executed' = steps'
    /\ UNCHANGED wfVars
    /\ UNCHANGED <<stepData, formatted, results, trace, plannerLog, convertLog>>

\* The loop is over: browser.close() in the finally block, then the results
\* are returned; a close that raises sends the run to the except block
CloseBrowser ==
    /\ pc = "loop"
    /\ ~LoopContinues(results, formatted)
    /\ browserOpen' = FALSE
    /\ pc' = "done"
    /\ \E ok \in BOOLEAN :
          IF ok
          THEN /\ executed' = results
               /\ UNCHANGED runExc
          ELSE /\ runExc' = Some(Msg("E_close", << >>, << >>, 0))
               /\ executed' = AllFailed(steps, Msg("E_close", << >>, << >>, 0))
    /\ UNCHANGED wfVars
    /\ UNCHANGED <<stepData, steps, formatted, results, trace, plannerLog, convertLog>>

Next ==
    \/ CreatePlan
    \/ ConvertSteps
    \/ LaunchBrowser
    \/ RunStep
    \/ CloseBrowser

Spec == Init /\ [][Next]_vars

(***************************************************************************)
(* Properties                                                              *)
(***************************************************************************)
Passes == 1..Len(trace)

ActionOf(p) == LowerWord(p.step.action)

\* The step failed before the try block of execute_step
RaisedBeforeTry(p) == StepValue(p.step) /= << >> /\ p.step.target = None

FailedNavigate(r) == LowerWord(r.action) = "navigate" /\ r.status = "failed"

\* C1: a plan of N steps gives exactly N results and the i-th result carries
\* the step number of the i-th step, while the loop runs (one result per
\* step passed) and when the run is over, whether the steps succeeded,
\* raised inside or outside execute_step, or the whole run raised and the
\* execution node built the results itself.
C1_OneResultPerStep ==
    /\ Len(results) <= Len(steps)
    /\ Len(results) = Len(trace)
    /\ \A i \in 1..Len(results) : results[i].step_number = steps[i].step_number
    /\ pc = "done" =>
          /\ Len(executed) = Len(steps)
          /\ \A i \in 1..Len(steps) : executed[i].step_number = steps[i].step_number

\* A plan of two steps with a number of its own: the first step raised
\* outside the try block, the second succeeded, then the run raised
C1_Witness ==
    /\ pc = "done" /\ runExc /= None
    /\ Len(steps) = 2 /\ Len(trace) = 2
    /\ steps[2].step_number = 7
    /\ trace[1].out.raised
    /\ results[2].status = "success"
    /\ Len(executed) = 2

SelectorsOf(calls) == [i \in 1..Len(calls) |-> calls[i].sel]

Probed(calls) == SelectorsOf(SelectSeq(calls, LAMBDA c : c.op = "wait_for_selector"))

\* The passes whose executor has a candidate loop: fill, click and the
\* verify that does not go through the strict block
HasCandidateLoop(p) ==
    /\ ~RaisedBeforeTry(p)
    /\ p.step.target /= None
    /\ \/ ActionOf(p) = "fill" /\ StepValue(p.step) /= << >>
       \/ ActionOf(p) = "click"
       \/ ActionOf(p) = "verify" /\ ~IsStrictTarget(p.step.target)

\* The candidate list of the pass
CandidatesOf(p) ==
    IF ActionOf(p) = "click"
    THEN ClickCandidates(StepSelectors(p.step), p.step.target)
    ELSE SelectorsOrFallback(StepSelectors(p.step), p.step.target)

\* The probe of selector sel succeeds on the page of the pass
ProbeSucceeds(p, sel) ==
    \/ /\ ActionOf(p) = "fill"
       /\ \/ ProbeOf(p.page, sel) = "ok"
          \/ /\ ProbeOf(p.page, sel) = "mismatch"
             /\ Contains(TargetLower(p.step.target), "password")
    \/ /\ ActionOf(p) = "click"
       /\ ProbeOf(p.page, sel) \in {"ok", "ok_many"}
    \/ /\ ActionOf(p) = "verify"
       /\ \/ ProbeOf(p.page, sel) = "notext"
          \/ /\ ProbeOf(p.page, sel) \in {"text", "text_noctx"}
             /\ \/ p.page.dom.text = << >>
                \/ ~ContextTruthy(ContextText(p.step.target[1]))
                \/ ProbeOf(p.page, sel) = "text" /\ Strip(p.page.dom.text) /= << >>

\* probed is a prefix of cands, and it ends with the first candidate whose
\* probe succeeds on the page of pass p, when there is one
PrefixToFirstSuccess(p, probed, cands) ==
    /\ Len(probed) <= Len(cands)
    /\ probed = SubSeq(cands, 1, Len(probed))
    /\ \A k \in 1..Len(cands) :
          ( /\ ProbeSucceeds(p, cands[k])
            /\ \A j \in 1..(k - 1) : ~ProbeSucceeds(p, cands[j]) )
          => Len(probed) = k

\* C3: in fill, click and non-strict verify the candidates probed during a
\* step are a prefix of the candidate list in list order, and when the first
\* candidate whose probe succeeds is the k-th of the list exactly k
\* candidates are probed, none after it.
C3_ProbesArePrefix ==
    \A n \in Passes :
        HasCandidateLoop(trace[n]) =>
            PrefixToFirstSuccess(trace[n], Probed(trace[n].body.calls),
                                 CandidatesOf(trace[n]))

\* A fill over three candidates: the first fails, the second succeeds, the
\* third is not probed
C3_Witness ==
    \E n \in Passes :
        /\ ActionOf(trace[n]) = "fill"
        /\ CandidatesOf(trace[n]) = <<"s1", "s2", "s1">>
        /\ ~ProbeSucceeds(trace[n], "s1")
        /\ Probed(trace[n].body.calls) = <<"s1", "s2">>
        /\ trace[n].out.result.status = "success"

\* The anchor text occurs on the page, and only in panes that are not active
OnlyUnderInactive(page) ==
    /\ page.dom.anchors /= << >>
    /\ \A i \in 1..Len(page.dom.anchors) : page.dom.anchors[i].closest = "inactive"

\* The verify executor ran the strict block in the pass
StrictVerifyRan(p) ==
    /\ ActionOf(p) = "verify"
    /\ IsStrictTarget(p.step.target)
    /\ ~p.page.dead

\* C4: for a verify step whose target has a quoted anchor and an "in the X
\* tab" phrase, on a page where the anchor occurs only under an inactive
\* pane, the executor returns status failed with location_verified false and
\* a LOCATION MISMATCH message, and the step is never a success.
C4_LocationMismatch ==
    \A n \in Passes :
        (StrictVerifyRan(trace[n]) /\ OnlyUnderInactive(trace[n].page)) =>
            /\ ~trace[n].body.raised
            /\ trace[n].body.result.status = "failed"
            /\ trace[n].body.result.location_verified = Some(FALSE)
            /\ trace[n].body.result.message.tag = "LOCATION MISMATCH: NOT found in tab"
            /\ trace[n].out.result.status = "failed"
            /\ results[n].status = "failed"

\* The anchor is shown on the page, in a pane that is not the active one
C4_Witness ==
    \E n \in Passes :
        /\ StrictVerifyRan(trace[n])
        /\ OnlyUnderInactive(trace[n].page)
        /\ \E i \in 1..Len(trace[n].page.dom.anchors) :
              /\ trace[n].page.dom.anchors[i].visible
              /\ trace[n].page.dom.anchors[i].underPanel
        /\ trace[n].body.result.status = "failed"

\* C5 as stated: in every result of an executor and of execute_step,
\* selector_used is present only when the status is success.
C5_Original ==
    \A n \in Passes :
        /\ ~trace[n].body.raised =>
              (trace[n].body.result.selector_used /= None
                  => trace[n].body.result.status = "success")
        /\ ~trace[n].out.raised =>
              (trace[n].out.result.selector_used /= None
                  => trace[n].out.result.status = "success")

\* A navigate step whose value is empty, absent or the placeholder
BadUrlNavigate(p) ==
    /\ ActionOf(p) = "navigate"
    /\ ~RaisedBeforeTry(p)
    /\ (StepValue(p.step) = << >> \/ StepValue(p.step) = PlaceholderUrl)

PasswordFill(d) ==
    /\ LowerWord(d.action) = "fill"
    /\ d.target /= None
    /\ Contains(TargetLower(d.target), "password")
    /\ d.value /= << >>

\* The other value of the same length
OtherValue(v) == IF v = ValueA THEN ValueB ELSE IF v = ValueB THEN ValueA ELSE v

\* The same plan with other password characters
TwinData(data) ==
    [i \in 1..Len(data) |->
        IF PasswordFill(data[i])
        THEN [data[i] EXCEPT !.value = OtherValue(data[i].value)] ELSE data[i]]

TwinSteps(data) == PlannerLoop(TwinData(data), << >>, << >>).steps

\* C7 as stated: what the planner, the step conversion and execute_step log
\* for the password fill steps does not depend on the characters of the
\* value: the run of the same plan with other password characters of the
\* same length prints the same lines.
C7_Original ==
    /\ pc /= "plan" =>
          plannerLog = PlannerLoop(TwinData(stepData), << >>, << >>).log
    /\ pc \in {"launch", "loop", "done"} =>
          convertLog = ConvertLogAll(TwinSteps(stepData))
    /\ \A n \in Passes :
          trace[n].out.log
              = ExecuteStep(trace[n].page, FormatStep(TwinSteps(stepData)[n])).log

\* A pass in which the driver's exception ended the branch of the step
DriverError(p) == ~RaisedBeforeTry(p) /\ p.body.raised /\ p.body.exc = DriverExc(p.page)

C9_ErrorIsOriginal ==
    \A n \in Passes :
        (~RaisedBeforeTry(trace[n]) /\ trace[n].body.raised) =>
            /\ ~trace[n].out.raised
            /\ trace[n].out.result.status = "failed"
            /\ trace[n].out.result.error = Some(trace[n].body.exc)
            /\ results[n].error = Some(trace[n].body.exc)

\* An executor raised on a page whose screenshots fail
C9_Witness ==
    \E n \in Passes :
        /\ ActionOf(trace[n]) \in {"fill", "click", "verify"}
        /\ trace[n].body.raised
        /\ ~ShotOk(trace[n].page)
        /\ ~trace[n].page.dead
        /\ trace[n].out.result.status = "failed"

\* The first run of decimal digits of a text: where it starts, where it
\* ends, and its value read from the left
HasDigit(s) == \E i \in 1..Len(s) : s[i] \in Digits

FirstRunStart(s) ==
    CHOOSE i \in 1..Len(s) : s[i] \in Digits /\ \A j \in 1..(i - 1) : s[j] \notin Digits

FirstRunEnd(s) ==
    CHOOSE j \in FirstRunStart(s)..Len(s) :
        /\ \A k \in FirstRunStart(s)..j : s[k] \in Digits
        /\ (j = Len(s) \/ s[j + 1] \notin Digits)

RECURSIVE ReadFromLeft(_, _, _, _)
ReadFromLeft(s, i, j, acc) ==
    IF i > j THEN acc ELSE ReadFromLeft(s, i + 1, j, acc * 10 + DigitVal(s[i]))

FirstRunValue(s) == ReadFromLeft(s, FirstRunStart(s), FirstRunEnd(s), 0)

\* numeric_value of a result dict is absent, or text_content holds a run of
\* digits and numeric_value is the value of the first one
NumericFromText(result) ==
    result.numeric_value /= None =>
        /\ result.text_content /= None
        /\ HasDigit(result.text_content[1])
        /\ result.numeric_value[1] = FirstRunValue(result.text_content[1])

\* C10: in every verify result, of the executor and of execute_step,
\* numeric_value is present only if text_content holds a run of decimal
\* digits, and then it is the integer value of the first run.
C10_NumericValue ==
    \A n \in Passes :
        ActionOf(trace[n]) = "verify" =>
            /\ ~trace[n].body.raised => NumericFromText(trace[n].body.result)
            /\ ~trace[n].out.raised => NumericFromText(trace[n].out.result)

\* A verify result whose text holds two numbers, the first with a leading
\* zero
C10_Witness ==
    \E n \in Passes :
        /\ ActionOf(trace[n]) = "verify"
        /\ ~trace[n].body.raised
        /\ trace[n].body.result.text_content = Some(Strip(TextTwo))
        /\ trace[n].body.result.numeric_value = Some(7)

\* The place of the first occurrence of x in the list l
FirstIndex(l, x) == CHOOSE i \in 1..Len(l) : l[i] = x /\ \A j \in 1..(i - 1) : l[j] /= x

NoDuplicates(l) == \A i, j \in 1..Len(l) : l[i] = l[j] => i = j

\* l holds the entries of the template list tmpl, each once, in the order
\* of their first occurrences in tmpl
FirstOccurrencesOf(l, tmpl) ==
    /\ Range(l) = Range(tmpl)
    /\ NoDuplicates(l)
    /\ \A i \in 1..(Len(l) - 1) : FirstIndex(tmpl, l[i]) < FirstIndex(tmpl, l[i + 1])

\* The pass iterated the generated candidates: the step has a target and
\* supplies no selectors
UsesGenerated(p) == HasCandidateLoop(p) /\ StepSelectors(p.step) = << >>

\* C11: for the target description of every step, generate_fallback_selectors
\* returns a list without two equal entries that holds the entries of the
\* family's template list in the order of their first occurrences; the list
\* depends on the description only, so the candidates a step probes are
\* the first ones of the list computed again for its target.
C11_GeneratedOnceEach ==
    /\ \A i \in 1..Len(stepData) :
          stepData[i].target /= None =>
              FirstOccurrencesOf(GenerateFallbackSelectors(stepData[i].target[1]),
                                 FamilySelectors(FamilyOf(stepData[i].target[1]),
                                                 stepData[i].target[1]))
    /\ \A n \in Passes :
          UsesGenerated(trace[n]) =>
              Probed(trace[n].body.calls)
                  = SubSeq(GenerateFallbackSelectors(trace[n].step.target[1]), 1,
                           Len(Probed(trace[n].body.calls)))

\* A verify step on a one-word target, whose template list names the same
\* selector three times, probed every candidate of the shorter list
C11_Witness ==
    \E n \in Passes :
        /\ ActionOf(trace[n]) = "verify"
        /\ UsesGenerated(trace[n])
        /\ ~NoDuplicates(FamilySelectors(FamilyOf(trace[n].step.target[1]),
                                         trace[n].step.target[1]))
        /\ Probed(trace[n].body.calls) = GenerateFallbackSelectors(trace[n].step.target[1])

\* A failed step whose action is not navigate
FailedOther(r) == LowerWord(r.action) /= "navigate" /\ r.status = "failed"

\* C12: a failed step whose action is not navigate (fill, click, wait,
\* verify, screenshot, unknown action) never stops the run: when the run is
\* over every later step of the plan was passed to execute_step, and when
\* the run returned each of them has its own result, built from what
\* execute_step gave for it.
C12_FailedStepGoesOn ==
    pc = "done" =>
        \A i \in 1..Len(results) :
            FailedOther(results[i]) =>
                /\ Len(trace) = Len(formatted)
                /\ \A j \in (i + 1)..Len(formatted) :
                      /\ trace[j].step = formatted[j]
                      /\ results[j] = StepRecord(formatted[j], trace[j].out)
                      /\ runExc = None => executed[j] = results[j]

\* The click of the first step found no candidate and failed; the fill of
\* the second step was executed and succeeded
C12_Witness ==
    /\ pc = "done" /\ runExc = None
    /\ Len(executed) = 2
    /\ ActionOf(trace[1]) = "click"
    /\ FailedOther(executed[1])
    /\ Probed(trace[1].out.calls) /= << >>
    /\ ActionOf(trace[2]) = "fill"
    /\ executed[2].status = "success"

\* The anchor text is found on the page outside the expected active
\* container: an element holding it is shown and was not accepted by the
\* strict patterns
FoundElsewhere(page) ==
    \E i \in 1..Len(page.dom.anchors) :
        page.dom.anchors[i].visible /\ ~StrictAccepts(page.dom.anchors[i])

\* The result dict reports a location mismatch
ReportsMismatch(result) ==
    \/ result.location_mismatch = Some(TRUE)
    \/ result.message.tag = "LOCATION MISMATCH: NOT found in tab"

\* C13 as stated: a strict verify result reports a location mismatch only
\* when the anchor text was found on the page outside the expected active
\* container; when no element of the page holds the anchor text the result
\* does not report a location mismatch.
C13_Original ==
    \A n \in Passes :
        (StrictVerifyRan(trace[n]) /\ ~trace[n].body.raised) =>
            /\ ReportsMismatch(trace[n].body.result) => FoundElsewhere(trace[n].page)
            /\ trace[n].page.dom.anchors = << >> => ~ReportsMismatch(trace[n].body.result)

\* A verify pass that went through the strategies after the strict block
\* on a live page
NonStrictVerifyRan(p) ==
    /\ ActionOf(p) = "verify"
    /\ p.step.target /= None
    /\ ~IsStrictTarget(p.step.target)
    /\ ~p.page.dead

\* No strategy of the pass isolated an element: the executor did not return
\* a success
NoElementIsolated(p) == p.body.raised \/ p.body.result.status /= "success"

\* C14 as stated: in a verify step where no locator, container search or
\* element scan isolates an element, if a keyword of the target occurs in
\* the raw page text the result has status partial and carries the text
\* around it; it is not failed.
C14_Original ==
    \A n \in Passes :
        ( /\ NonStrictVerifyRan(trace[n])
          /\ NoElementIsolated(trace[n])
          /\ trace[n].page.dom.bodyHasKw ) =>
            /\ ~trace[n].body.raised
            /\ trace[n].body.result.status = "partial"
            /\ trace[n].body.result.text_content = Some(trace[n].page.dom.snippet)
            /\ trace[n].out.result.status = "partial"

\* A fill pass whose executor ran its loop on a live page
FillRan(p) ==
    /\ ActionOf(p) = "fill"
    /\ p.step.target /= None
    /\ StepValue(p.step) /= << >>
    /\ ~p.page.dead

IsPasswordTarget(p) == Contains(TargetLower(p.step.target), "password")

\* The calls that read a field's value back
ReadBacks(calls) == SelectorsOf(SelectSeq(calls, LAMBDA c : c.op = "input_value"))

\* What the fill executor's exception says of the last error
LastErrorOf(exc) == exc.b

\* On the page of pass p the candidates cands are probed to the end or to
\* the first one that reads back the written value; a candidate that reads
\* back another value is a failed probe like any other
MismatchIsProbeFailure(p, probed, cands) ==
    /\ \A k \in 1..Len(probed) :
          ProbeOf(p.page, cands[k]) = "mismatch" =>
              /\ cands[k] \in Range(ReadBacks(p.body.calls))
              /\ k < Len(cands) => (Len(probed) > k /\ probed[k + 1] = cands[k + 1])
    /\ p.body.raised <=> \A k \in 1..Len(cands) : ProbeOf(p.page, cands[k]) /= "ok"
    /\ ~p.body.raised =>
          /\ p.body.result.status = "success"
          /\ ProbeOf(p.page, p.body.result.selector_used[1]) = "ok"
    /\ (p.body.raised /\ LastErrorOf(p.body.exc) = <<"Value mismatch">>) =>
          /\ cands /= << >>
          /\ ProbeOf(p.page, cands[Len(cands)]) = "mismatch"
          /\ Len(probed) = Len(cands)

\* C15: in a fill step on a target that is not a password field, a
\* candidate whose field reads back another value than the written one
\* counts as a failed probe and the next candidate is tried; the step fails
\* only if no candidate reads back the written value, and it fails with the
\* value mismatch as its last error only if the last candidate was probed
\* and read back another value.
C15_MismatchTriesNext ==
    \A n \in Passes :
        (FillRan(trace[n]) /\ ~IsPasswordTarget(trace[n])) =>
            MismatchIsProbeFailure(trace[n], Probed(trace[n].body.calls),
                                   CandidatesOf(trace[n]))

\* The first candidate read back another value, the second the written one
C15_Witness ==
    \E n \in Passes :
        /\ FillRan(trace[n]) /\ ~IsPasswordTarget(trace[n])
        /\ CandidatesOf(trace[n]) = <<"s1", "s2", "s1">>
        /\ ProbeOf(trace[n].page, "s1") = "mismatch"
        /\ ReadBacks(trace[n].body.calls) = <<"s1", "s2">>
        /\ trace[n].out.result.status = "success"
        /\ trace[n].out.result.selector_used = Some("s2")

\* The candidate is visible and accepts the write on the page of pass p
AcceptsWrite(p, sel) == ProbeOf(p.page, sel) \in {"ok", "mismatch"}

\* The first candidate of cands that accepts the write ends the loop of
\* pass p with success; without one the executor raises
FirstWriteEnds(p, probed, cands) ==
    /\ \A k \in 1..Len(cands) :
          ( /\ AcceptsWrite(p, cands[k])
            /\ \A j \in 1..(k - 1) : ~AcceptsWrite(p, cands[j]) )
          => /\ ~p.body.raised
             /\ p.body.result.status = "success"
             /\ p.body.result.selector_used = Some(cands[k])
             /\ Len(probed) = k
    /\ (\A k \in 1..Len(cands) : ~AcceptsWrite(p, cands[k])) => p.body.raised

\* C16: in a fill step whose target contains "password" the value of the
\* field is never read back from the driver, for any candidate, and the
\* first candidate that is visible and accepts the write ends the step with
\* success, whatever the field would read back.
C16_PasswordNotReadBack ==
    \A n \in Passes :
        (FillRan(trace[n]) /\ IsPasswordTarget(trace[n])) =>
            /\ ReadBacks(trace[n].body.calls) = << >>
            /\ ReadBacks(trace[n].out.calls) = << >>
            /\ FirstWriteEnds(trace[n], Probed(trace[n].body.calls),
                              CandidatesOf(trace[n]))

\* A password field that would read back another value: the first
\* candidate timed out, the second took the write and ended the step
C16_Witness ==
    \E n \in Passes :
        /\ FillRan(trace[n]) /\ IsPasswordTarget(trace[n])
        /\ CandidatesOf(trace[n]) = <<"s1", "s2", "s1">>
        /\ ProbeOf(trace[n].page, "s1") = "timeout"
        /\ ProbeOf(trace[n].page, "s2") = "mismatch"
        /\ trace[n].out.result.status = "success"
        /\ trace[n].out.result.selector_used = Some("s2")

\* A click pass whose executor ran its loop: the wait before the loop of a
\* tab click did not raise
ClickRan(p) ==
    /\ ActionOf(p) = "click"
    /\ p.step.target /= None
    /\ ~(IsTabClick(p.step.target) /\ p.page.dead)

\* The error a failed probe of selector sel leaves in last_error
ProbeError(p, sel) ==
    CASE ProbeOf(p.page, sel) = "mismatch" -> "Value mismatch"
      [] ProbeOf(p.page, sel) = "empty" -> "Selector matched but no elements found"
      [] ProbeOf(p.page, sel) = "hidden" -> "Element found but not visible"
      [] OTHER -> Trunc100(p.page.err)

\* The text of the exception after the last candidate
AggregatedError(p, cands) ==
    Msg(IF ActionOf(p) = "fill" THEN "Failed to fill after attempts. Last error"
        ELSE "Failed to click after attempts. Last error",
        p.step.target[1], <<ProbeError(p, cands[Len(cands)])>>, Len(cands))

\* Every candidate of cands failed its probe in pass p
AllProbesFail(p, cands) == \A k \in 1..Len(cands) : ~ProbeSucceeds(p, cands[k])

AggregatedFailure(p, probed, cands) ==
    /\ probed = cands
    /\ ~p.out.raised
    /\ p.out.result.status = "failed"
    /\ p.out.result.error = Some(AggregatedError(p, cands))
    /\ p.out.result.error[1].n = Len(probed)

\* C17: when every candidate of a fill or click step fails its probe, the
\* result of the step has status failed, and its error text names the
\* number of candidates tried, which is the length of the list the loop
\* iterated (for a click the list without its later duplicates), and the
\* error of the last candidate.
C17_AggregatedFailure ==
    \A n \in Passes :
        ( /\ FillRan(trace[n]) \/ ClickRan(trace[n])
          /\ AllProbesFail(trace[n], CandidatesOf(trace[n])) ) =>
            AggregatedFailure(trace[n], Probed(trace[n].body.calls),
                              CandidatesOf(trace[n]))

\* A click with the selectors s1, s2, s1: s1 timed out, s2 was hidden, and
\* the error counts two attempts
C17_Witness ==
    \E n \in Passes :
        /\ ClickRan(trace[n])
        /\ StepSelectors(trace[n].step) = <<"s1", "s2", "s1">>
        /\ ProbeOf(trace[n].page, "s1") = "timeout"
        /\ ProbeOf(trace[n].page, "s2") = "hidden"
        /\ trace[n].out.result.status = "failed"
        /\ trace[n].out.result.error[1].n = 2
        /\ trace[n].out.result.error[1].b = <<"Element found but not visible">>

KnownActions == {"navigate", "fill", "click", "wait", "verify", "screenshot"}

\* C18 as stated: a step whose action, in lower case, is none of navigate,
\* fill, click, wait, verify and screenshot gets a failed result whose
\* error is the unknown-action error, no candidate is probed for it, and
\* the steps after it are executed.
C18_Original ==
    \A n \in Passes :
        ActionOf(trace[n]) \notin KnownActions =>
            /\ results[n].status = "failed"
            /\ results[n].error
                  = Some(Msg("Unknown action", <<ActionOf(trace[n])>>, << >>, 0))
            /\ Probed(trace[n].out.calls) = << >>
            /\ pc = "done" => Len(trace) = Len(formatted)

\* The calls that probe a candidate or write to a field
ProbesAndWrites(calls) ==
    SelectSeq(calls, LAMBDA c : c.op \in {"wait_for_selector", "fill", "input_value"})

\* C19: a fill step whose value is empty or absent fails fast: execute_step
\* returns a failed result that says no value was provided, the fill
\* executor is not entered, so no candidate is probed or written to, and
\* the only call on the page is the error screenshot.
C19_EmptyFillFailsFast ==
    \A n \in Passes :
        (ActionOf(trace[n]) = "fill" /\ StepValue(trace[n].step) = << >>) =>
            /\ ~trace[n].out.raised
            /\ trace[n].out.result.status = "failed"
            /\ trace[n].out.result.error
                  = Some(Msg("No value provided for fill action on",
                             TargetText(trace[n].step.target), << >>, 0))
            /\ trace[n].body.calls = << >>
            /\ ProbesAndWrites(trace[n].out.calls) = << >>
            /\ trace[n].out.calls = TryScreenshot("error_step")
            /\ results[n].status = "failed"

\* A fill step without a value and without selectors, on a page where the
\* first generated candidate would take a value
C19_Witness ==
    \E n \in Passes :
        /\ ActionOf(trace[n]) = "fill"
        /\ StepValue(trace[n].step) = << >>
        /\ StepSelectors(trace[n].step) = << >>
        /\ ProbeOf(trace[n].page, CandidatesOf(trace[n])[1]) = "ok"
        /\ trace[n].out.result.status = "failed"

\* The steps as the planner handed them to execute_steps_with_browser
InputSteps == PlannerLoop(stepData, << >>, << >>).steps

\* C20: execute_steps_with_browser never modifies its input steps: from
\* the conversion on, while the browser runs and after the call returned,
\* on the normal and on the error path, every field of every input step
\* (status and actual_result among them) is what it was before the call,
\* and the list returned is made of other records: each result has a
\* status of its own while its input step is still pending.
C20_InputStepsUnchanged ==
    pc \in {"convert", "launch", "loop", "done"} =>
        /\ steps = InputSteps
        /\ \A i \in 1..Len(steps) :
              /\ steps[i].status = "pending"
              /\ steps[i].error = None
              /\ steps[i].actual_result
                    = Some(JsonDumps([selectors |-> stepData[i].selectors,
                                      value |-> stepData[i].value,
                                      screenshot |-> stepData[i].screenshot]))
        /\ pc = "done" =>
              /\ Len(executed) = Len(steps)
              /\ \A i \in 1..Len(executed) :
                    /\ executed[i] /= steps[i]
                    /\ executed[i].status \in {"success", "failed", "partial"}

\* The error path after two steps were run: closing the browser raised,
\* every result is marked failed and the input steps are still pending
C20_Witness ==
    /\ pc = "done" /\ runExc = Some(Msg("E_close", << >>, << >>, 0))
    /\ Len(steps) = 2 /\ Len(trace) = 2
    /\ results[1].status = "success"
    /\ \A i \in 1..2 : executed[i].status = "failed" /\ steps[i].status = "pending"

\* The tab named by the location hint is the active one on the page
NamedTabIsActive(page) == page.dom.tabActive /= 0

\* C21 as stated: a strict verify declares success with location_verified
\* true only when the anchor was found inside the active container that is
\* the one the location hint names, not merely inside whichever container
\* is active.
C21_Original ==
    \A n \in Passes :
        ( /\ StrictVerifyRan(trace[n])
          /\ ~trace[n].body.raised
          /\ trace[n].body.result.status = "success"
          /\ trace[n].body.result.location_verified = Some(TRUE) ) =>
            /\ \E i \in 1..Len(trace[n].page.dom.anchors) :
                  StrictAccepts(trace[n].page.dom.anchors[i])
            /\ NamedTabIsActive(trace[n].page)

\* The families in the order they are asked for, and the keywords of each
FamilyOrder == <<"email", "password", "tab", "button", "link">>

FamilyKeywords(f) ==
    CASE f = "email" -> {"email", "username", "user"}
      [] f = "password" -> {"password", "pass"}
      [] f = "tab" -> {"tab", "nav"}
      [] f = "button" -> {"button", "submit", "btn", "click"}
      [] f = "link" -> {"link"}

\* The description, in lower case, contains a keyword of the family
HasKeywordOf(tl, f) == \E kw \in FamilyKeywords(f) : Contains(tl, kw)

\* The earliest family of the order with a keyword in the description, the
\* generic family when there is none
EarliestFamily(tl) ==
    IF \A k \in 1..Len(FamilyOrder) : ~HasKeywordOf(tl, FamilyOrder[k]) THEN "generic"
    ELSE FamilyOrder[CHOOSE k \in 1..Len(FamilyOrder) :
                        /\ HasKeywordOf(tl, FamilyOrder[k])
                        /\ \A j \in 1..(k - 1) : ~HasKeywordOf(tl, FamilyOrder[j])]

\* The list generated for description t is the list of family f alone
ListOfFamily(t, f) ==
    /\ GenerateFallbackSelectors(t) /= << >>
    /\ Range(GenerateFallbackSelectors(t)) = Range(FamilySelectors(f, t))

\* C22: generate_fallback_selectors puts every description into one family,
\* the earliest of email/username, password, tab/nav, button/submit/click,
\* link with a keyword in it, and into the generic family when it has no
\* keyword; the list returned is the list of that family alone, it is not
\* empty, and the steps that took their candidates from it on a live page
\* probed the first of them (nothing was raised in place of a list).
C22_EarliestFamily ==
    /\ \A i \in 1..Len(stepData) :
          stepData[i].target /= None =>
              /\ FamilyOf(stepData[i].target[1]) = EarliestFamily(Lower(stepData[i].target[1]))
              /\ ListOfFamily(stepData[i].target[1],
                              EarliestFamily(Lower(stepData[i].target[1])))
    /\ \A n \in Passes :
          (UsesGenerated(trace[n]) /\ ~trace[n].page.dead) =>
              /\ Probed(trace[n].body.calls) /= << >>
              /\ Probed(trace[n].body.calls)[1]
                    = FamilySelectors(EarliestFamily(TargetLower(trace[n].step.target)),
                                      trace[n].step.target[1])[1]

\* A fill step on "Password for username": keywords of two families, and
\* the candidates probed are those of the email family
C22_Witness ==
    \E n \in Passes :
        /\ UsesGenerated(trace[n])
        /\ HasKeywordOf(TargetLower(trace[n].step.target), "email")
        /\ HasKeywordOf(TargetLower(trace[n].step.target), "password")
        /\ Probed(trace[n].body.calls)[1] = "#email"
        /\ "#password" \notin Range(Probed(trace[n].body.calls))
        /\ trace[n].body.raised

\* The tiers of the tab family for a tab name and its lower case: the
\* selectors that ask for role=tab, for the nav-link or nav-item class, for
\* the name in the href, the generic text matches on links and buttons, the
\* partial class matches, and the selectors that do not hold the name
AriaTier(name) ==
    {"a[role='tab']:has-text('" \o name \o "')",
     "button[role='tab']:has-text('" \o name \o "')",
     "//a[@role='tab'][contains(., '" \o name \o "')]"}

NavLinkTier(name, lower) ==
    {"a.nav-link:has-text('" \o name \o "')",
     "//a[contains(@class, 'nav-link')][contains(., '" \o name \o "')]",
     "//a[contains(@class, 'nav-link')][contains(" \o TranslateDot \o ", '" \o lower \o "')]",
     ".nav-item a:has-text('" \o name \o "')",
     "//li[contains(@class, 'nav-item')]//a[contains(., '" \o name \o "')]"}

HrefTier(lower) ==
    {"a[href*='" \o lower \o "']", "a[href*='filter=" \o lower \o "']",
     "//a[contains(@href, '" \o lower \o "')]",
     "//a[contains(@href, 'filter=" \o lower \o "')]"}

TextTier(name, lower) ==
    {"a:has-text('" \o name \o "')", "button:has-text('" \o name \o "')",
     "//a[contains(" \o TranslateText \o ", '" \o lower \o "')]"}

PartialClassTier(name) ==
    {"[class*='nav-link']:has-text('" \o name \o "')",
     "[class*='nav']:has-text('" \o name \o "')",
     ".tab:has-text('" \o name \o "')", ".tab-button:has-text('" \o name \o "')"}

NameFreeTier == {".nav-link", ".nav-item a", "[role='tab']", ".tab", ".tab-button", "a", "button"}

\* Every selector of A stands in the list l before every selector of B
Precedes(l, A, B) ==
    /\ A \cup B \subseteq Range(l)
    /\ \A a \in A : \A b \in B : FirstIndex(l, a) < FirstIndex(l, b)

\* The order the spec gives for the list l of a tab description
AriaThenNavThenHref(l, name, lower) ==
    /\ Precedes(l, AriaTier(name), NavLinkTier(name, lower))
    /\ Precedes(l, NavLinkTier(name, lower), HrefTier(lower))
    /\ Precedes(l, HrefTier(lower), TextTier(name, lower))

\* The order of the list l in the code
NavThenHrefThenAria(l, name, lower) ==
    /\ Precedes(l, NavLinkTier(name, lower), HrefTier(lower))
    /\ Precedes(l, HrefTier(lower), AriaTier(name))
    /\ Precedes(l, AriaTier(name), PartialClassTier(name))
    /\ Precedes(l, PartialClassTier(name), TextTier(name, lower))
    /\ Precedes(l, TextTier(name, lower), NameFreeTier)
    /\ Range(l) = NavLinkTier(name, lower) \cup HrefTier(lower) \cup AriaTier(name)
                    \cup PartialClassTier(name) \cup TextTier(name, lower) \cup NameFreeTier

\* The targets of the plan that fall into the tab family
TabTargets ==
    { stepData[i].target[1] : i \in { k \in 1..Len(stepData) :
                                         /\ stepData[k].target /= None
                                         /\ FamilyOf(stepData[k].target[1]) = "tab" } }

\* C23 as stated: in the list generated for the tab/nav description of a
\* step every role=tab selector precedes every nav-link class selector, which precede
\* every href-contains selector, which precede the generic text matches.
C23_Original ==
    \A n \in Passes :
        (UsesGenerated(trace[n]) /\ FamilyOf(trace[n].step.target[1]) = "tab") =>
            AriaThenNavThenHref(CandidatesOf(trace[n]),
                                TabName(ContextText(trace[n].step.target[1]),
                                        TabWords(trace[n].step.target[1])),
                                TabLower(ContextText(trace[n].step.target[1]),
                                         TabWords(trace[n].step.target[1])))

\* C23, as the generator orders the list: the nav-link and nav-item
\* selectors with the tab name come first, then the href-contains
\* selectors, then the role=tab selectors, then the partial class and tab
\* class matches, then the generic text matches on links and buttons, and
\* last the selectors without the name; the list holds nothing else, and a
\* step that finds no candidate probes it in this order.
C23_NavLinkFirst ==
    /\ \A t \in TabTargets :
          NavThenHrefThenAria(GenerateFallbackSelectors(t),
                              TabName(ContextText(t), TabWords(t)),
                              TabLower(ContextText(t), TabWords(t)))
    /\ \A n \in Passes :
          ( /\ ActionOf(trace[n]) = "click" /\ UsesGenerated(trace[n])
            /\ ClickRan(trace[n])
            /\ FamilyOf(trace[n].step.target[1]) = "tab"
            /\ trace[n].body.raised ) =>
              Probed(trace[n].body.calls) = GenerateFallbackSelectors(trace[n].step.target[1])

\* A click on "Completed tab" found no candidate: the nav-link selector was
\* probed first, the role=tab selector tenth
C23_Witness ==
    \E n \in Passes :
        /\ ActionOf(trace[n]) = "click" /\ UsesGenerated(trace[n])
        /\ trace[n].step.target = Some(TTab)
        /\ ~trace[n].page.dead
        /\ trace[n].body.raised
        /\ Probed(trace[n].body.calls)[1] = "a.nav-link:has-text('Completed')"
        /\ Probed(trace[n].body.calls)[10] = "a[role='tab']:has-text('Completed')"

\* The place of the first call of operation op in calls, 0 when there is none
FirstCall(calls, op) ==
    IF \A i \in 1..Len(calls) : calls[i].op /= op THEN 0
    ELSE CHOOSE i \in 1..Len(calls) :
            calls[i].op = op /\ \A j \in 1..(i - 1) : calls[j].op /= op

\* The milliseconds of the fixed waits among the calls from the i-th to the
\* j-th
RECURSIVE WaitedBetween(_, _, _)
WaitedBetween(calls, i, j) ==
    IF i > j THEN 0
    ELSE (IF calls[i].op = "wait_for_timeout" THEN calls[i].ms ELSE 0)
         + WaitedBetween(calls, i + 1, j)

\* The fixed delay between the click and the idle-network check, and the
\* wait after the check
DelayAfterClick(calls) ==
    WaitedBetween(calls, FirstCall(calls, "click") + 1,
                  FirstCall(calls, "wait_for_load_state") - 1)

ExtraWait(calls) ==
    WaitedBetween(calls, FirstCall(calls, "wait_for_load_state") + 1, Len(calls))

\* A click pass whose executor clicked an element
ClickSucceeded(p) ==
    /\ ActionOf(p) = "click"
    /\ p.step.target /= None
    /\ ~p.body.raised
    /\ p.body.result.status = "success"

\* C24 as stated: after a successful click the fixed delay before the
\* idle-network check is 2000 ms for a state-changing target, 1000 to 1500
\* ms for a tab/nav target and 300 to 500 ms for any other; when the check
\* times out the extra wait is 2000 ms for a state-changing click and 1000
\* ms for a tab/nav click.
C24_Original ==
    \A n \in Passes :
        ClickSucceeded(trace[n]) =>
            /\ IF IsStateChanging(trace[n].step.target)
               THEN DelayAfterClick(trace[n].body.calls) = 2000
               ELSE IF IsTabClick(trace[n].step.target)
               THEN DelayAfterClick(trace[n].body.calls) \in 1000..1500
               ELSE DelayAfterClick(trace[n].body.calls) \in 300..500
            /\ ~IdleOk(trace[n].page) =>
                  IF IsStateChanging(trace[n].step.target)
                  THEN ExtraWait(trace[n].body.calls) = 2000
                  ELSE IsTabClick(trace[n].step.target) =>
                          ExtraWait(trace[n].body.calls) = 1000

\* C24, as the two waits add up: after the click the executor waits 1500
\* ms for a tab/nav target and 300 ms for any other, and execute_step then
\* waits 2000 ms for a state-changing target, else 1000 ms for a tab/nav
\* target, else 500 ms; the fixed delay before the idle-network check is
\* their sum and depends on the target only.  When the check times out the
\* extra wait is 2000 ms for a state-changing target and 1000 ms for every
\* other; when it does not, nothing more is waited.
C24_ClickDelays ==
    \A n \in Passes :
        ClickSucceeded(trace[n]) =>
            /\ DelayAfterClick(trace[n].body.calls)
                  = (IF IsTabClick(trace[n].step.target) THEN 1500 ELSE 300)
                    + (IF IsStateChanging(trace[n].step.target) THEN 2000
                       ELSE IF IsTabClick(trace[n].step.target) THEN 1000 ELSE 500)
            /\ ExtraWait(trace[n].body.calls)
                  = IF IdleOk(trace[n].page) THEN 0
                    ELSE IF IsStateChanging(trace[n].step.target) THEN 2000 ELSE 1000

\* A click on a tab whose name holds no state-changing keyword, on a page
\* that does not get idle: 2500 ms before the check, 1000 ms after it
C24_Witness ==
    \E n \in Passes :
        /\ ClickSucceeded(trace[n])
        /\ IsTabClick(trace[n].step.target)
        /\ ~IsStateChanging(trace[n].step.target)
        /\ ~IdleOk(trace[n].page)
        /\ DelayAfterClick(trace[n].body.calls) = 2500
        /\ ExtraWait(trace[n].body.calls) = 1000

\* A wait pass on a page that is alive
WaitRan(p) ==
    /\ ActionOf(p) = "wait"
    /\ ~RaisedBeforeTry(p)
    /\ ~p.page.dead

\* C25 as stated: a wait step delays for the integer parsed from its value,
\* or for 2000 ms when the value is absent or not a number, then attempts
\* the idle-network check, and its result is success for every value and
\* every outcome of the check.
C25_Original ==
    \A n \in Passes :
        WaitRan(trace[n]) =>
            /\ ~trace[n].body.raised
            /\ trace[n].out.result.status = "success"
            /\ Len(trace[n].body.calls) = 2
            /\ trace[n].body.calls[1]
                  = Call("wait_for_timeout", "",
                         IF IsDecimalStr(StepValue(trace[n].step))
                         THEN IntOf(StepValue(trace[n].step)) ELSE 2000,
                         NoVal)
            /\ trace[n].body.calls[2].op = "wait_for_load_state"

\* C27 as stated: a result of execute_step has status failed exactly when
\* it carries an error text, and so has every record of the run.
C27_Original ==
    \A n \in Passes :
        /\ ~trace[n].out.raised =>
              (trace[n].out.result.status = "failed"
                  <=> trace[n].out.result.error /= None)
        /\ n \in 1..Len(results) =>
              (results[n].status = "failed" <=> results[n].error /= None)

\* The calls of the strategies outside the strict block, for the anchor
\* text c: the probes of the candidates, the container templates, the scan
\* of the elements and the read of the page text
OutsideStrict(calls, c) ==
    SelectSeq(calls, LAMBDA x :
        \/ x.op = "wait_for_selector"
        \/ x \in Range(ContainerQueries(7, c))
        \/ x = ScanCall
        \/ x.op = "evaluate")

\* The anchor text of a target, as the patterns hold it
AnchorOf(target) == Render(ContextText(target[1])[1], " ")

\* C30: the strict block and the other strategies of verify exclude each
\* other.  When the target gives an anchor and a location, no supplied or
\* generated locator, no container template and no scan is probed, and the
\* result is a success with location_verified true or a failure, never
\* partial; when the anchor or the location is missing, no result carries
\* location_verified.
C30_StrictExcludesOthers ==
    \A n \in Passes :
        /\ (ActionOf(trace[n]) = "verify" /\ IsStrictTarget(trace[n].step.target)
               /\ ~RaisedBeforeTry(trace[n])) =>
              /\ OutsideStrict(trace[n].out.calls, AnchorOf(trace[n].step.target)) = << >>
              /\ ~trace[n].out.raised
              /\ \/ /\ trace[n].out.result.status = "success"
                    /\ trace[n].out.result.location_verified = Some(TRUE)
                 \/ trace[n].out.result.status = "failed"
        /\ (ActionOf(trace[n]) = "verify" /\ ~IsStrictTarget(trace[n].step.target)) =>
              /\ ~trace[n].out.raised => trace[n].out.result.location_verified = None
              /\ ~trace[n].body.raised => trace[n].body.result.location_verified = None

\* A strict verify with supplied locators on a live page that ended in the
\* location mismatch without a probe of any of them
C30_Witness ==
    \E n \in Passes :
        /\ StrictVerifyRan(trace[n])
        /\ StepSelectors(trace[n].step) /= << >>
        /\ ~trace[n].body.raised
        /\ trace[n].body.result.status = "failed"
        /\ trace[n].body.result.location_verified = Some(FALSE)
        /\ trace[n].page.dom.anchors /= << >>
        /\ OutsideStrict(trace[n].out.calls, AnchorOf(trace[n].step.target)) = << >>

\* The values status took, from the one of reproduce_bug on, in the order
\* in which the nodes assigned them
RECURSIVE StatusLogFrom(_)
StatusLogFrom(i) ==
    IF i > Len(visits) THEN << >> ELSE visits[i].set \o StatusLogFrom(i + 1)

StatusLog == <<"initializing">> \o StatusLogFrom(1)

\* The place of a status in the order of the stages
StageRank(s) ==
    CASE s = "initializing" -> 0
      [] s = "fetching" -> 1
      [] s = "parsing" -> 2
      [] s = "parsed" -> 3
      [] s = "planning" -> 4
      [] s = "planned" -> 5
      [] s = "executing" -> 6
      [] s = "analyzing" -> 7
      [] s = "completed" -> 8
      [] OTHER -> 9

\* C26: along every run of the workflow the status field only moves forward
\* through fetching, parsing, parsed, planning, planned, executing,
\* analyzing, completed; it never returns to an earlier stage, and once it
\* is failed no node sets it to another value.
C26_StatusMovesForward ==
    /\ state.status = StatusLog[Len(StatusLog)]
    /\ \A i \in 1..(Len(StatusLog) - 1) :
          /\ StatusLog[i] = "failed" => StatusLog[i + 1] = "failed"
          /\ StatusLog[i + 1] /= "failed" =>
                StageRank(StatusLog[i]) <= StageRank(StatusLog[i + 1])

\* A run through the four nodes: every stage was taken in turn, and the
\* report node set completed once more
C26_Witness ==
    /\ node = "END"
    /\ StatusLog = <<"initializing", "fetching", "parsing", "parsed", "planning",
                     "planned", "executing", "analyzing", "completed", "completed">>

\* The nodes that ran, in order
NodesRun == [i \in 1..Len(visits) |-> visits[i].node]

\* C28 as stated: whenever the parser, the planner or the execution node
\* finishes with next_action abort, status is failed and the node appended
\* an entry to errors; a run that ends before the report node does not end
\* with a status other than failed.
C28_Original ==
    /\ \A i \in 1..Len(visits) :
          (visits[i].node /= "report" /\ visits[i].after.next_action = Some("abort")) =>
              /\ visits[i].after.status = "failed"
              /\ Len(visits[i].after.errors) > Len(visits[i].before.errors)
    /\ (node = "END" /\ "report" \notin Range(NodesRun)) => state.status = "failed"

\* The order of the nodes and what each of them found when it started
C29_Order ==
    /\ \E k \in 0..4 :
          NodesRun = SubSeq(<<"fetch_and_parse", "create_plan", "execute", "report">>, 1, k)
    /\ \A i \in 1..Len(visits) :
          /\ i > 1 => visits[i].before = visits[i - 1].after
          /\ visits[i].node = "create_plan" =>
                visits[i].before.next_action = Some("plan_reproduction")
          /\ visits[i].node = "execute" =>
                visits[i - 1].after.reproduction_plan /= None
          /\ visits[i].node = "report" =>
                visits[i - 1].after.reproduction_result /= None
    /\ state.status = "completed" => state.reproduction_result /= None

\* C29: the workflow runs fetch_and_parse, create_plan, execute and report
\* in this order, each at most once, and always reaches the end; the
\* planner runs only after the parser set next_action to plan_reproduction,
\* the executor only after the planner stored a plan, the report node only
\* after the executor stored a result, so a status completed implies that
\* reproduction_result is set.
C29_OrderedAndTerminates == []C29_Order /\ <>(node = "END")

\* A run that went through the four nodes and ended completed with the
\* result stored
C29_Witness ==
    /\ node = "END"
    /\ NodesRun = <<"fetch_and_parse", "create_plan", "execute", "report">>
    /\ state.status = "completed"
    /\ state.reproduction_result /= None
=============================================================================
